---- MODULE Spec2Model ----
(***************************************************************************)
(* Model of src/data/generate_registry_data.py: the CAM registry compiler.  *)
(*                                                                         *)
(* The state is one scope unit (File): its VarDict (the ordered mapping,    *)
(* the reserved standard names, the known dimensions), its DDTs, the shared *)
(* TypeRegistry and the lines of the last emission.  `last` records the     *)
(* last call: its name, its argument, the dictionary it started from and    *)
(* what it returned or raised.  An exception aborts the run: nothing runs   *)
(* after a call that raised.  Around the scope unit is the run of           *)
(* write_registry_files: the sections still to read, the Files built, the   *)
(* artifacts written.                                                       *)
(*                                                                         *)
(* Conventions: an XML node is a record [attrib, children]; attrib is a     *)
(* function from attribute names to strings.  A Python value that may be    *)
(* None is a sequence, <<>> for None and <<x>> for x, when x is not a       *)
(* string; a string that may be None is the string None.  A dimension       *)
(* token "a:b" is the sequence of its colon-separated components.           *)
(***************************************************************************)
EXTENDS Integers, Sequences, FiniteSets, TLC

VARIABLES var_dict, standard_names, dimensions, known_types, ddts, outfile, last,
          registry, files, use_statements, written, dim_order, min_dim_key

\* the state of the run around the scope unit being read: the sections of the
\* registry still to read, the Files built, the use entries of the File being
\* read, the artifacts on disk, and the sort keys File has handed out
run_vars == <<registry, files, use_statements, written, dim_order, min_dim_key>>

vars == <<var_dict, standard_names, dimensions, known_types, ddts, outfile, last,
          registry, files, use_statements, written, dim_order, min_dim_key>>

None == "None"

\* str.lower() on the names the model draws its inputs from
Lower(s) ==
  CASE s = "U" -> "u"
    [] s = "V" -> "v"
    [] s = "S1" -> "s1"
    [] s = "S2" -> "s2"
    [] s = "T1" -> "t1"
    [] s = "SE" -> "se"
    [] s = "SM" -> "sm"
    [] s = "Real" -> "real"
    [] s = "CCPP_CONSTANT_ONE" -> "ccpp_constant_one"
    [] OTHER -> s

\* elem_node.get(att, default=default)
Get(node, att, default) ==
  IF att \in DOMAIN node.attrib THEN node.attrib[att] ELSE default

\* The outcome of a call: exc is "none" when it returned, else the Python
\* exception class; kind names the error message; info holds the names the
\* message is formatted with.
Ok == [exc |-> "none", kind |-> "ok", info |-> <<>>]
Raise(exc, kind, info) == [exc |-> exc, kind |-> kind, info |-> info]
CCPPError(kind, info) == Raise("CCPPError", kind, info)

---------------------------------------------------------------------------
(* TypeEntry and TypeRegistry *)

TypeEntry(ttype, module, ddt) == [type_type |-> ttype, module |-> module, ddt |-> ddt]

\* TypeRegistry.__init__: the five intrinsic types, in insertion order
TypeRegistryInit ==
  << [key |-> "character", entry |-> TypeEntry("character", None, <<>>)],
     [key |-> "complex",   entry |-> TypeEntry("complex", None, <<>>)],
     [key |-> "integer",   entry |-> TypeEntry("integer", None, <<>>)],
     [key |-> "logical",   entry |-> TypeEntry("logical", None, <<>>)],
     [key |-> "real",      entry |-> TypeEntry("real", None, <<>>)] >>

\* `key in d` for a dict kept as a sequence of [key, ...] entries
HasKey(d, key) == \E i \in 1..Len(d) : d[i].key = key

\* d[key]
AtKey(d, key) == d[CHOOSE i \in 1..Len(d) : d[i].key = key]

\* TypeRegistry.known_type: the entry, or None
KnownType(types, test_type) ==
  LET ttype == Lower(test_type)
  IN IF HasKey(types, ttype) THEN <<AtKey(types, ttype).entry>> ELSE <<>>

\* TypeRegistry.add_type: [res, types]
AddType(types, new_type, type_module, type_ddt) ==
  IF HasKey(types, new_type)
    THEN [res |-> Raise("ValueError", "NameCollision",
                        <<new_type, AtKey(types, new_type).entry.module>>),
          types |-> types]
    ELSE [res |-> Ok,
          types |-> Append(types, [key |-> new_type,
                                   entry |-> TypeEntry(new_type, type_module, type_ddt)])]

---------------------------------------------------------------------------
(* VarDict lookups *)

\* VarDict.variable_list: the values, in insertion order
DictVariableList(dict) == [i \in 1..Len(dict) |-> dict[i].var]

\* VarDict.find_variable_by_standard_name: the first match, or None
FindVariableByStandardName(dict, std_name) ==
  LET sname == Lower(std_name)
      hits == {i \in 1..Len(dict) : sname = Lower(dict[i].var.standard_name)}
  IN IF hits = {} THEN <<>>
     ELSE <<dict[CHOOSE i \in hits : \A j \in hits : i <= j].var>>

\* VarDict.find_variable_by_local_name
FindVariableByLocalName(dict, local_name) ==
  LET lname == Lower(local_name)
  IN IF HasKey(dict, lname) THEN <<AtKey(dict, lname).var>> ELSE <<>>

---------------------------------------------------------------------------
(* Variable construction *)

\* Variable.__CONSTANT_DIMENSIONS
ConstantDimensions == [ccpp_constant_one |-> 1, ccpp_constant_zero |-> 0]

\* Variable.__VAR_ATTRIBUTES
VarAttributes == {"access", "allocatable", "dycore", "extends", "kind",
                  "local_name", "name", "standard_name", "type", "units",
                  "version"}

\* Variable.constant_dimension: the value, or None
ConstantDimension(dim) ==
  IF Lower(dim) \in DOMAIN ConstantDimensions
    THEN <<ConstantDimensions[Lower(dim)]>> ELSE <<>>

\* Python truth of constant_dimension's result: `not lname` holds of None and of 0
IsFalsy(lname) == lname = <<>> \/ lname = <<0>>

\* dim.count(':')
ColonCount(dim) == Len(dim) - 1

\* Variable.__init__, the loop of lines 432-447 over the components of one
\* token of a statically shaped variable.  A component counts as found when
\* constant_dimension is true of it or a variable of the dictionary has it as
\* standard_name.  ':'.join raises TypeError when a component resolved to the
\* integer of a constant.
ResolveDimension(dim, dict, local_name) ==
  LET Found(k) == \/ ~IsFalsy(ConstantDimension(dim[k]))
                  \/ FindVariableByStandardName(dict, dim[k]) # <<>>
      missing == {k \in 1..Len(dim) : ~Found(k)}
      IsInt(k) == ~IsFalsy(ConstantDimension(dim[k]))
  IN IF missing # {}
       THEN [res |-> CCPPError("UnresolvedDimension",
                       <<dim[CHOOSE k \in missing : \A j \in missing : k <= j],
                         local_name>>),
             val |-> <<>>]
     ELSE IF \E k \in 1..Len(dim) : IsInt(k)
       THEN [res |-> Raise("TypeError", "JoinOfInteger", <<local_name>>), val |-> <<>>]
     ELSE [res |-> Ok,
           val |-> [k \in 1..Len(dim) |->
                      FindVariableByStandardName(dict, dim[k])[1].local_name]]

\* a step test that is off by one separator
HasStepOffByOne(dim) == ColonCount(dim) > 2

\* `dim.count(':') > 1` (line 423)
HasStep(dim) == ColonCount(dim) > 1

\* the test of line 428 on the allocatable attribute as read at line 400
IsStaticShape(allocatable) == allocatable \in {"", "parameter", "target"}

\* Variable.__init__, lines 422-452: the loop over the tokens of one
\* <dimensions> child, from token i on; def_dims is the list built so far.
\* DimensionsStep is the body of the loop for token i, r being what the
\* resolution of the token gives when the variable is statically shaped.
RECURSIVE DimensionsLoop(_, _, _, _, _, _)
DimensionsStep(my_dimensions, i, allocatable, dict, local_name, def_dims, r) ==
  IF HasStep(my_dimensions[i])
    THEN [res |-> CCPPError("IllegalDimensionStep", <<local_name>>),
          def_dims |-> def_dims]
  ELSE IF IsStaticShape(allocatable)
    THEN IF r.res # Ok THEN [res |-> r.res, def_dims |-> def_dims]
         ELSE DimensionsLoop(my_dimensions, i + 1, allocatable, dict,
                             local_name, Append(def_dims, r.val))
  ELSE DimensionsLoop(my_dimensions, i + 1, allocatable, dict,
                      local_name, Append(def_dims, <<":">>))

DimensionsLoop(my_dimensions, i, allocatable, dict, local_name, def_dims) ==
  IF i > Len(my_dimensions) THEN [res |-> Ok, def_dims |-> def_dims]
  ELSE DimensionsStep(my_dimensions, i, allocatable, dict, local_name, def_dims,
                      ResolveDimension(my_dimensions[i], dict, local_name))

\* the child tags Variable.__init__ leaves to VarBase
VarChildTags == {"long_name", "initial_value", "element", "ic_file_input_names"}

\* Variable.__init__, lines 418-469: the first pass over the children, from
\* child i on: [res, my_dimensions, def_dims].  ChildrenStep is the body of
\* the loop for a <dimensions> child, r being what its tokens give.
RECURSIVE ChildrenLoop(_, _, _, _, _, _, _)
ChildrenStep(children, i, allocatable, dict, local_name, def_dims, r) ==
  IF r.res # Ok
    THEN [res |-> r.res, my_dimensions |-> children[i].dims, def_dims |-> def_dims]
    ELSE ChildrenLoop(children, i + 1, allocatable, dict, local_name,
                      children[i].dims,
                      IF r.def_dims # <<>> THEN r.def_dims ELSE def_dims)

ChildrenLoop(children, i, allocatable, dict, local_name, my_dimensions, def_dims) ==
  IF i > Len(children)
    THEN [res |-> Ok, my_dimensions |-> my_dimensions, def_dims |-> def_dims]
  ELSE IF children[i].tag = "dimensions"
    THEN ChildrenStep(children, i, allocatable, dict, local_name, def_dims,
                      DimensionsLoop(children[i].dims, 1, allocatable, dict,
                                     local_name, <<>>))
  ELSE IF children[i].tag \in VarChildTags
    THEN ChildrenLoop(children, i + 1, allocatable, dict, local_name,
                      my_dimensions, def_dims)
  ELSE [res |-> CCPPError("UnknownContent", <<children[i].tag>>),
        my_dimensions |-> my_dimensions, def_dims |-> def_dims]

\* the text of the last child of the given tag, or default
LastChildText(children, tag, default) ==
  LET hits == {i \in 1..Len(children) : children[i].tag = tag}
  IN IF hits = {} THEN default
     ELSE children[CHOOSE i \in hits : \A j \in hits : j <= i].text

\* lines 135-138: the allocatable attribute, 'none' kept as the empty string
NormalAllocatable(alloc) == IF alloc = "none" THEN "" ELSE alloc

\* lines 160-163: a pointer without an initial value starts as NULL()
DefaultInitialValue(init, allocatable) ==
  IF init = "" /\ allocatable = "pointer" THEN "NULL()" ELSE init

\* lines 149-159: the names of the last <ic_file_input_names> child, whose
\* text the node keeps as the list of its blank-separated parts, or None
IcNames(children) ==
  IF \E i \in 1..Len(children) : children[i].tag = "ic_file_input_names"
    THEN <<children[CHOOSE i \in 1..Len(children) :
                      /\ children[i].tag = "ic_file_input_names"
                      /\ \A j \in (i + 1)..Len(children) :
                           children[j].tag # "ic_file_input_names"].names>>
    ELSE <<>>

\* lines 125-135 and 149-163: the fields VarBase.__init__ sets; type and
\* allocatable are what lines 129 and 135-138 made of the attributes
VarBaseFields(elem_node, local_name, dims, type, kind_default, allocatable) ==
  [local_name |-> local_name,
   standard_name |-> Get(elem_node, "standard_name", None),
   dimensions |-> dims,
   type |-> IF type = <<>> THEN TypeEntry(None, None, <<>>) ELSE type[1],
   kind |-> Get(elem_node, "kind", kind_default),
   allocatable |-> allocatable,
   initial_value |-> DefaultInitialValue(
                       LastChildText(elem_node.children, "initial_value", ""),
                       allocatable),
   ic_names |-> IcNames(elem_node.children)]

\* lines 139-148: the checks of the type
VarBaseChecks(local_name, ttype, type, var) ==
  IF type = <<>>
    THEN [res |-> CCPPError("UnknownType", <<local_name, ttype>>), var |-> var]
  ELSE IF type[1].ddt # <<>> /\ var.kind # ""
    THEN [res |-> CCPPError("IllegalKind", <<type[1].type_type>>), var |-> var]
  ELSE [res |-> Ok, var |-> var]

\* VarBase.__init__: [res, var]
VarBaseInit(elem_node, local_name, dims, types, type_default, kind_default, alloc_default) ==
  VarBaseChecks(local_name,
                Get(elem_node, "type", type_default),
                KnownType(types, Get(elem_node, "type", type_default)),
                VarBaseFields(elem_node, local_name, dims,
                              KnownType(types, Get(elem_node, "type", type_default)),
                              kind_default,
                              NormalAllocatable(
                                Get(elem_node, "allocatable", alloc_default))))

\* ArrayElement.__init__, lines 310-321: the dimensions left when the one at
\* index_pos is taken out; index_pos names a whole token
ElementDimensions(parent_dims, pos) ==
  SelectSeq(parent_dims, LAMBDA dim : dim # <<pos>>)

\* ArrayElement.__init__, lines 312-323: my_index or my_local_index, name
\* being the index_name of the node or the local_name of the index variable
MyIndex(parent_dims, pos, name) ==
  [i \in 1..Len(parent_dims) |-> IF parent_dims[i] = <<pos>> THEN name ELSE ":"]

\* '{}({})'.format(parent_name, ','.join(index)) (lines 332-333 and 339)
ElementName(parent_name, index) == <<parent_name, "(">> \o index \o <<")">>

\* lines 325-333: what ArrayElement.__init__ keeps beside the fields of
\* VarBase, made being what VarBase.__init__ gave
ElementIndexed(made, local_index_name_str) ==
  [res |-> made.res,
   var |-> [f \in DOMAIN made.var \cup {"local_index_name_str"} |->
              IF f = "local_index_name_str" THEN local_index_name_str
              ELSE made.var[f]]]

\* ArrayElement.__init__: [res, var].  The children of the node go to
\* VarBase.__init__, which reads the tags it knows and ignores the others.
ArrayElementInit(elem_node, parent_name, parent_dims, types, parent_type, parent_kind, parent_alloc, dict) ==
  IF FindVariableByStandardName(dict, Get(elem_node, "index_name", None)) = <<>>
    THEN [res |-> CCPPError("UnknownArrayIndex",
                            <<Get(elem_node, "index_name", None), parent_name>>),
          var |-> <<>>]
  ELSE IF \A i \in 1..Len(parent_dims) :
            parent_dims[i] # <<Get(elem_node, "index_pos", None)>>
    THEN [res |-> CCPPError("ElementDimensionNotFound",
                            <<Get(elem_node, "index_name", None), parent_name>>),
          var |-> <<>>]
  ELSE ElementIndexed(
         VarBaseInit(elem_node,
                     ElementName(parent_name,
                       MyIndex(parent_dims, Get(elem_node, "index_pos", None),
                               Get(elem_node, "index_name", None))),
                     ElementDimensions(parent_dims, Get(elem_node, "index_pos", None)),
                     types, parent_type, parent_kind, parent_alloc),
         ElementName(parent_name,
           MyIndex(parent_dims, Get(elem_node, "index_pos", None),
                   FindVariableByStandardName(
                     dict, Get(elem_node, "index_name", None))[1].local_name)))

\* Variable.__init__, lines 473-483: the second pass over the children, from
\* child i on: [res, elements].  ElementsStep is the body of the loop for an
\* <element> child, made being what ArrayElement.__init__ gave.
RECURSIVE ElementsLoop(_, _, _, _, _, _)
ElementsStep(var_node, i, types, dict, base_var, elements, made) ==
  IF made.res # Ok THEN [res |-> made.res, elements |-> elements]
  ELSE ElementsLoop(var_node, i + 1, types, dict, base_var,
                    Append(elements, made.var))

ElementsLoop(var_node, i, types, dict, base_var, elements) ==
  IF i > Len(var_node.children) THEN [res |-> Ok, elements |-> elements]
  ELSE IF var_node.children[i].tag = "element"
    THEN ElementsStep(var_node, i, types, dict, base_var, elements,
                      ArrayElementInit(var_node.children[i], base_var.local_name,
                                       base_var.dimensions, types,
                                       Get(var_node, "type", None), base_var.kind,
                                       Get(var_node, "allocatable", "none"), dict))
  ELSE ElementsLoop(var_node, i + 1, types, dict, base_var, elements)

\* lines 409-415 and 454: the fields Variable.__init__ adds to those of VarBase
VariableFields(base_var, access, def_dims, elements) ==
  [local_name |-> base_var.local_name,
   standard_name |-> base_var.standard_name,
   dimensions |-> base_var.dimensions,
   type |-> base_var.type,
   kind |-> base_var.kind,
   allocatable |-> base_var.allocatable,
   initial_value |-> base_var.initial_value,
   ic_names |-> base_var.ic_names,
   access |-> IF access = "protected" THEN "public" ELSE access,
   protected |-> (access = "protected"),
   def_dims |-> def_dims,
   elements |-> elements]

\* lines 402-407: the attributes outside the allow-list
BadAttributes(var_node) == {att \in DOMAIN var_node.attrib : att \notin VarAttributes}

\* Variable.__init__ in the order of its checks, loop being what the first
\* pass over the children gave, base what VarBase.__init__ gave and elems
\* what the second pass gave
VariableChecks(var_node, local_name, loop, base, elems) ==
  IF BadAttributes(var_node) # {}
    THEN [res |-> CCPPError("BadAttribute",
                    <<CHOOSE att \in BadAttributes(var_node) : TRUE, local_name>>),
          var |-> <<>>]
  ELSE IF loop.res # Ok THEN [res |-> loop.res, var |-> <<>>]
  ELSE IF base.res # Ok THEN [res |-> base.res, var |-> <<>>]
  ELSE IF elems.res # Ok THEN [res |-> elems.res, var |-> <<>>]
  ELSE IF base.var.allocatable = "parameter" /\ base.var.initial_value = ""
    THEN [res |-> CCPPError("MissingInitialValue", <<local_name>>), var |-> <<>>]
  ELSE [res |-> Ok,
        var |-> <<VariableFields(base.var, Get(var_node, "access", "public"),
                                 loop.def_dims, elems.elements)>>]

\* lines 473-483: the second pass, which runs when VarBase.__init__ returned
VariableAfterBase(var_node, types, dict, loop, base) ==
  VariableChecks(var_node, Get(var_node, "local_name", None), loop, base,
                 IF base.res = Ok
                   THEN ElementsLoop(var_node, 1, types, dict, base.var, <<>>)
                   ELSE [res |-> Ok, elements |-> <<>>])

\* lines 470-472: the call of VarBase.__init__ with the dimensions of the loop
VariableAfterLoop(var_node, types, dict, loop) ==
  VariableAfterBase(var_node, types, dict, loop,
                    VarBaseInit(var_node, Get(var_node, "local_name", None),
                                loop.my_dimensions, types,
                                Get(var_node, "type", None), "", "none"))

\* Variable.__init__: [res, var]; var is <<the variable>> when res is Ok
VariableInit(var_node, types, dict) ==
  VariableAfterLoop(var_node, types, dict,
                    ChildrenLoop(var_node.children, 1,
                                 Get(var_node, "allocatable", "none"), dict,
                                 Get(var_node, "local_name", None), <<>>, <<>>))

---------------------------------------------------------------------------
(* VarDict.add_variable and VarDict.remove_variable *)

\* `local_name.lower() in self` (line 722)
LocalNameInDict(dict, local_name) == HasKey(dict, Lower(local_name))

\* a membership test that forgets to fold the case of the new name
StandardNameReservedCaseSensitive(std_names, std_name) ==
  \E i \in 1..Len(std_names) : std_names[i] = std_name

\* `std_name.lower() in self.__standard_names` (line 732)
StandardNameReserved(std_names, std_name) ==
  \E i \in 1..Len(std_names) : std_names[i] = Lower(std_name)

\* OrderedDict.__setitem__: a present key keeps its place, a new key goes last
SetItem(dict, key, var) ==
  IF HasKey(dict, key)
    THEN [i \in 1..Len(dict) |-> IF dict[i].key = key THEN [key |-> key, var |-> var]
                                  ELSE dict[i]]
    ELSE Append(dict, [key |-> key, var |-> var])

\* a deletion that deletes nothing
DelItemKeepsAll(dict, key) == dict

\* OrderedDict.__delitem__ of a present key
DelItem(dict, key) == SelectSeq(dict, LAMBDA e : e.key # key)

\* dim.lower() of a token
LowerToken(dim) == [k \in 1..Len(dim) |-> Lower(dim[k])]

\* lines 750-758: what add_variable adds to the known dimensions
NewDimensions(var_dimensions) ==
  {LowerToken(var_dimensions[i]) : i \in
     {i \in 1..Len(var_dimensions) :
        \E k \in 1..Len(var_dimensions[i]) :
           IsFalsy(ConstantDimension(var_dimensions[i][k]))}}

\* the standard names add_variable appends to (line 749)
ReserveStandardName(std_names, std_name) == Append(std_names, Lower(std_name))

\* VarDict.add_variable on the dictionary named dict_name:
\* [res, var_dict, standard_names, dimensions]
AddVariableOp(dict, std_names, dims, dict_name, newvar) ==
  LET local_name == newvar.local_name
      std_name == newvar.standard_name
      same == [res |-> Ok, var_dict |-> dict, standard_names |-> std_names,
               dimensions |-> dims]
  IN IF LocalNameInDict(dict, local_name)
       THEN IF ~HasKey(dict, local_name)
              THEN [same EXCEPT !.res = Raise("KeyError", "KeyError", <<local_name>>)]
              ELSE LET ovar == AtKey(dict, local_name).var IN
                   [same EXCEPT !.res = CCPPError("DuplicateLocalName",
                      <<local_name, dict_name>> \o
                      (IF ovar.standard_name # std_name
                         THEN <<ovar.standard_name>> ELSE <<>>))]
     ELSE IF StandardNameReserved(std_names, std_name)
       THEN LET ovar == FindVariableByStandardName(dict, std_name) IN
            [same EXCEPT !.res = CCPPError("DuplicateStandardName",
               <<std_name, local_name, dict_name>> \o
               (IF ovar # <<>> THEN <<ovar[1].local_name>> ELSE <<>>))]
     ELSE [res |-> Ok,
           var_dict |-> SetItem(dict, Lower(local_name), newvar),
           standard_names |-> ReserveStandardName(std_names, std_name),
           dimensions |-> dims \cup NewDimensions(newvar.dimensions)]

\* a remove_variable that releases the standard name of the variable it detaches
StandardNamesReleased(std_names, std_name) ==
  SelectSeq(std_names, LAMBDA n : n # Lower(std_name))

\* what remove_variable leaves of the reserved standard names (line 799: all)
StandardNamesAfterRemove(std_names, std_name) == std_names

\* VarDict.remove_variable: [var_dict, standard_names]
RemoveVariableOp(dict, std_names, std_name) ==
  LET var == FindVariableByStandardName(dict, std_name)
  IN IF var # <<>>
       THEN [var_dict |-> DelItem(dict, Lower(var[1].local_name)),
             standard_names |-> StandardNamesAfterRemove(std_names, std_name)]
       ELSE [var_dict |-> dict, standard_names |-> std_names]

---------------------------------------------------------------------------
(* DDT *)

\* the default of ddt_node.get('bindC') and ddt_node.get('private')
PyFalse == "<False>"

\* Python truth of an attribute value or its default
Truthy(x) == x \notin {None, PyFalse, ""}

\* an XML node without attributes
NoAttrib == [a \in {} |-> a]

\* lines 885-890: whether a <data> child is included for the dycore; the
\* dycore attribute is kept as the list of its comma-separated parts
IncludeVar(attrib, dycore) ==
  LET parts == Get(attrib, "dycore", <<>>)
      attrib_dycores == {Lower(parts[i]) : i \in 1..Len(parts)}
  IN ~(attrib_dycores # {} /\ dycore \notin attrib_dycores)

\* a member that stays in the dictionary it is taken from
KeepMember(dict, std_names, varname) ==
  [var_dict |-> dict, standard_names |-> std_names]

\* line 895: var_dict.remove_variable(varname)
DetachMember(dict, std_names, varname) == RemoveVariableOp(dict, std_names, varname)

\* DDT.__init__, lines 881-907: the loop over the children, from child i on:
\* [res, data, var_dict, standard_names]
RECURSIVE DataLoop(_, _, _, _, _, _, _)
DataLoop(children, i, dict, std_names, data, dycore, ddt_type) ==
  IF i > Len(children)
    THEN [res |-> Ok, data |-> data, var_dict |-> dict, standard_names |-> std_names]
  ELSE LET attrib == children[i] IN
    IF attrib.tag = "data"
      THEN IF IncludeVar(attrib, dycore)
             THEN LET var == FindVariableByStandardName(dict, attrib.text) IN
                  IF var # <<>>
                    THEN LET r == DetachMember(dict, std_names, attrib.text) IN
                         DataLoop(children, i + 1, r.var_dict, r.standard_names,
                                  Append(data, var[1]), dycore, ddt_type)
                    ELSE [res |-> CCPPError("UnknownMember", <<attrib.text, ddt_type>>),
                          data |-> data, var_dict |-> dict,
                          standard_names |-> std_names]
             ELSE DataLoop(children, i + 1, dict, std_names, data, dycore, ddt_type)
      ELSE [res |-> CCPPError("UnknownElement", <<attrib.tag, ddt_type>>),
            data |-> data, var_dict |-> dict, standard_names |-> std_names]

\* a test for a bindC that is the boolean True, which no attribute value is
ConflictingAttributesIsTrue(extends, bindc) == extends # <<>> /\ bindc = "<True>"

\* `self.__extends and self.__bindc` (line 875)
ConflictingAttributes(extends, bindc) == extends # <<>> /\ Truthy(bindc)

\* DDT.__init__: [res, ddt, var_dict, standard_names]; ddt is <<the DDT>> when
\* res is Ok.  The dictionary keeps what the loop did to it when res is not.
DDTInit(ddt_node, types, dict, std_names, dycore) ==
  LET type == Get(ddt_node, "type", None)
      extends == Get(ddt_node, "extends", None)
      ext == IF extends = None THEN <<>> ELSE KnownType(types, extends)
      bindc == Get(ddt_node, "bindC", PyFalse)
      loop == DataLoop(ddt_node.children, 1, dict, std_names, <<>>, dycore, type)
      ddt == [type |-> type, data |-> loop.data, extends |-> ext, bindc |-> bindc,
              private |-> Get(ddt_node, "private", PyFalse)]
      stop(res) == [res |-> res, ddt |-> <<>>, var_dict |-> dict,
                    standard_names |-> std_names]
  IN IF Truthy(extends) /\ ext = <<>>
       THEN stop(CCPPError("UnknownParentType", <<type, extends>>))
     ELSE IF ConflictingAttributes(ext, bindc)
       THEN stop(CCPPError("ConflictingAttributes", <<type>>))
     ELSE IF loop.res # Ok
       THEN [res |-> loop.res, ddt |-> <<>>, var_dict |-> loop.var_dict,
             standard_names |-> loop.standard_names]
     ELSE [res |-> Ok, ddt |-> <<ddt>>, var_dict |-> loop.var_dict,
           standard_names |-> loop.standard_names]

\* DDT.variable_list: [res, val]; the parent entry of a type that is no DDT
\* has ddt None, and None has no variable_list
RECURSIVE VariableList(_)
VariableList(ddt) ==
  IF ddt.extends # <<>>
    THEN IF ddt.extends[1].ddt = <<>>
           THEN [res |-> Raise("AttributeError", "NoneHasNoVariableList", <<ddt.type>>),
                 val |-> <<>>]
           ELSE LET up == VariableList(ddt.extends[1].ddt[1]) IN
                IF up.res # Ok THEN up
                ELSE [res |-> Ok, val |-> ddt.data \o up.val]
    ELSE [res |-> Ok, val |-> ddt.data]

\* VarBase.write_metadata of the elements of a variable (lines 509-511)
ElementsWriteMetadata(elements) ==
  [i \in 1..Len(elements) |-> <<"name", elements[i].local_name>>]

\* Variable.write_metadata: the lines of one variable, none when it is private
VarWriteMetadata(var) ==
  IF var.access # "private"
    THEN << <<"name", var.local_name>>, <<"standard_name", var.standard_name>>,
            IF var.type.ddt # <<>> THEN <<"ddt_type", var.type.type_type>>
            ELSE IF var.kind # "" THEN <<"type", var.type.type_type, var.kind>>
            ELSE <<"type", var.type.type_type>>,
            <<"dimensions">> \o var.dimensions >>
         \o (IF var.allocatable = "parameter" \/ var.protected
               THEN << <<"protected", "True">> >> ELSE <<>>)
         \o ElementsWriteMetadata(var.elements)
    ELSE <<>>

\* the lines of a list of variables, one after the other
RECURSIVE VarsWriteMetadata(_)
VarsWriteMetadata(vlist) ==
  IF vlist = <<>> THEN <<>>
  ELSE VarWriteMetadata(Head(vlist)) \o VarsWriteMetadata(Tail(vlist))

\* DDT.write_metadata: [res, lines]
DDTWriteMetadata(ddt) ==
  [res |-> Ok,
   lines |-> << <<"[ccpp-arg-table]">>, <<"name", ddt.type>>, <<"type", "ddt">> >>
             \o VarsWriteMetadata(ddt.data)]

\* Variable.write_definition: [res, lines]; init_str is not bound when an
\* allocatable variable has an initial value (lines 573-581)
VarWriteDefinition(var) ==
  LET comment == <<"!", var.local_name>> IN
  IF var.initial_value # "" /\ var.allocatable = "allocatable"
    THEN [res |-> Raise("UnboundLocalError", "init_str", <<var.local_name>>),
          lines |-> <<comment>>]
    ELSE [res |-> Ok,
          lines |-> <<comment, <<"::", var.local_name, var.access, var.allocatable>> >>]

\* the loop of DDT.write_definition over the members, from member i on
RECURSIVE VarsWriteDefinition(_, _, _)
VarsWriteDefinition(vlist, i, lines) ==
  IF i > Len(vlist) THEN [res |-> Ok, lines |-> lines]
  ELSE LET w == VarWriteDefinition(vlist[i]) IN
       IF w.res # Ok THEN [res |-> w.res, lines |-> lines \o w.lines]
       ELSE VarsWriteDefinition(vlist, i + 1, lines \o w.lines)

\* `not self.__data` (line 934)
NoMembers(ddt) == ddt.data = <<>>

\* DDT.write_definition: [res, lines]; max() of line 953 raises ValueError
\* when every member is private
DDTWriteDefinition(ddt, access) ==
  LET my_acc == IF Truthy(ddt.private) THEN "private" ELSE "public"
      acc_str == IF ddt.extends # <<>> THEN <<"extends", ddt.extends[1].type_type>>
                 ELSE IF Truthy(ddt.bindc) THEN <<"bind(C)">>
                 ELSE IF my_acc # access THEN <<my_acc>>
                 ELSE <<>>
      head == << <<"arg_table", ddt.type>>, <<"type">> \o acc_str \o <<ddt.type>> >>
      body == VarsWriteDefinition(ddt.data, 1, head)
  IN IF NoMembers(ddt)
       THEN [res |-> CCPPError("NoMemberVariables", <<ddt.type>>), lines |-> <<>>]
     ELSE IF \A i \in 1..Len(ddt.data) : ddt.data[i].access = "private"
       THEN [res |-> Raise("ValueError", "MaxOfEmpty", <<ddt.type>>), lines |-> head]
     ELSE IF body.res # Ok THEN body
     ELSE [res |-> Ok, lines |-> body.lines \o << <<"end type", ddt.type>> >>]

---------------------------------------------------------------------------
(* The scope unit *)

\* file_node.get('name') of the scope unit being read
FileName == IF registry = <<>> THEN "physics_types" ELSE Head(registry).name

\* the dictionary a call started from
Pre == [var_dict |-> var_dict, standard_names |-> standard_names,
        dimensions |-> dimensions, known_types |-> known_types, ddts |-> ddts]

\* the names of File.__dim_order as the class defines it, in the order of
\* their keys
DimOrder == << <<"horizontal_dimension">>, <<"vertical_layer_dimension">>,
               <<"vertical_interface_dimension">>, <<"number_of_constituents">> >>

\* File.__dim_order as a dictionary: its entries in insertion order
DimOrderDict == [i \in 1..Len(DimOrder) |-> [name |-> DimOrder[i], key |-> i]]

\* File.__min_dim_key as the class defines it
MinDimKey == 5

Init ==
  /\ var_dict = <<>>
  /\ standard_names = <<>>
  /\ dimensions = {}
  /\ known_types = TypeRegistryInit
  /\ ddts = <<>>
  /\ outfile = <<>>
  /\ last = [op |-> "init", arg |-> <<>>, res |-> Ok, pre |-> <<>>]
  /\ registry = <<>>
  /\ files = <<>>
  /\ use_statements = <<>>
  /\ written = <<>>
  /\ dim_order = DimOrderDict
  /\ min_dim_key = MinDimKey

\* the calls of the emission: the writers, and variable_list, which only the
\* writers of File call
EmissionOps == {"ddt_write_metadata", "ddt_write_definition", "ddt_variable_list",
                "file_write_metadata", "file_write_source"}

\* an exception ends the run
Running == last.res = Ok

\* write_registry_files builds every File before it emits anything
Parsing == Running /\ last.op \notin EmissionOps

\* the dycore of the run, as main() lowers it
Dycore == "se"

\* File.__init__, lines 1016-1019: a <variable> or <array> node
AddVariableStep(var_node) ==
  /\ Parsing
  /\ LET made == VariableInit(var_node, known_types, var_dict) IN
     IF made.res # Ok
       THEN /\ last' = [op |-> "add_variable", arg |-> <<var_node>>,
                        res |-> made.res, pre |-> Pre]
            /\ UNCHANGED <<var_dict, standard_names, dimensions>>
       ELSE LET a == AddVariableOp(var_dict, standard_names, dimensions,
                                   FileName, made.var[1]) IN
            /\ var_dict' = a.var_dict
            /\ standard_names' = a.standard_names
            /\ dimensions' = a.dimensions
            /\ last' = [op |-> "add_variable", arg |-> <<var_node>>,
                        res |-> a.res, pre |-> Pre]
  /\ UNCHANGED <<known_types, ddts, outfile>>

\* a <variable> node read into the scope unit on its own
AddVariable(var_node) == AddVariableStep(var_node) /\ UNCHANGED run_vars

\* VarDict.remove_variable(std_name)
RemoveVariable(std_name) ==
  /\ Parsing
  /\ LET r == RemoveVariableOp(var_dict, standard_names, std_name) IN
     /\ var_dict' = r.var_dict
     /\ standard_names' = r.standard_names
  /\ last' = [op |-> "remove_variable", arg |-> <<std_name>>, res |-> Ok, pre |-> Pre]
  /\ UNCHANGED <<dimensions, known_types, ddts, outfile>>
  /\ UNCHANGED run_vars

\* File.__init__, lines 1020-1028: a <ddt> node
NewDDTStep(ddt_node) ==
  /\ Parsing
  /\ LET made == DDTInit(ddt_node, known_types, var_dict, standard_names, Dycore) IN
     /\ var_dict' = made.var_dict
     /\ standard_names' = made.standard_names
     /\ IF made.res # Ok
          THEN /\ last' = [op |-> "new_ddt", arg |-> <<ddt_node>>, res |-> made.res,
                           pre |-> Pre, ddt |-> <<>>]
               /\ UNCHANGED <<ddts, known_types>>
          ELSE LET newddt == made.ddt[1]
                   reg == AddType(known_types, newddt.type, FileName, <<newddt>>) IN
               /\ ddts' = SetItem(ddts, newddt.type, newddt)
               /\ known_types' = reg.types
               /\ last' = [op |-> "new_ddt", arg |-> <<ddt_node>>, res |-> reg.res,
                           pre |-> Pre, ddt |-> <<newddt>>]
  /\ UNCHANGED <<dimensions, outfile>>

\* a <ddt> node read into the scope unit on its own
NewDDT(ddt_node) == NewDDTStep(ddt_node) /\ UNCHANGED run_vars

\* DDT.write_metadata of the i-th DDT of the File, to a new outfile
WriteDDTMetadata(i) ==
  /\ Running
  /\ i \in 1..Len(ddts)
  /\ LET w == DDTWriteMetadata(ddts[i].var) IN
     /\ outfile' = w.lines
     /\ last' = [op |-> "ddt_write_metadata", arg |-> <<ddts[i].var>>, res |-> w.res,
                 pre |-> Pre]
  /\ UNCHANGED <<var_dict, standard_names, dimensions, known_types, ddts>>
  /\ UNCHANGED run_vars

\* DDT.write_definition of the i-th DDT of the File, to a new outfile, as
\* File.write_source calls it
WriteDDTDefinition(i) ==
  /\ Running
  /\ i \in 1..Len(ddts)
  /\ LET w == DDTWriteDefinition(ddts[i].var, "private") IN
     /\ outfile' = w.lines
     /\ last' = [op |-> "ddt_write_definition", arg |-> <<ddts[i].var>>, res |-> w.res,
                 pre |-> Pre]
  /\ UNCHANGED <<var_dict, standard_names, dimensions, known_types, ddts>>
  /\ UNCHANGED run_vars

\* DDT.variable_list of the i-th DDT of the File
CallVariableList(i) ==
  /\ Running
  /\ i \in 1..Len(ddts)
  /\ LET r == VariableList(ddts[i].var) IN
     last' = [op |-> "ddt_variable_list", arg |-> <<ddts[i].var>>, res |-> r.res,
              pre |-> Pre, val |-> r.val]
  /\ UNCHANGED <<var_dict, standard_names, dimensions, known_types, ddts, outfile>>
  /\ UNCHANGED run_vars

---------------------------------------------------------------------------
(* Inputs *)

\* a <variable> node without children
VarNode(local_name, standard_name) ==
  [attrib |-> [local_name |-> local_name, standard_name |-> standard_name,
               type |-> "real"],
   children |-> <<>>]

LocalNames == {"u", "U", "v", "w"}
StandardNames == {"s1", "S1", "s2", "s3"}

\* the nodes of the dictionary specification: every spelling of two names
DictVarNodes == {VarNode(l, s) : l \in LocalNames, s \in StandardNames}

\* all sequences over S of length at most n
SeqsUpTo(S, n) == UNION {[1..k -> S] : k \in 0..n}

\* the longest dimension list of an input node
MaxDims == 2

\* the tokens of the input nodes: the standard_name of the scalar, which
\* resolves once the scalar is in the dictionary, a name no variable has, a
\* constant with a name, and three components
DimTokens == {<<"s1">>, <<"nodim">>, <<"ccpp_constant_one", "s1">>,
              <<"s1", "s1", "s1">>}

\* the allocatable attribute of the input nodes; None is the absent attribute
AllocAttribs == {None, "none", "parameter", "target", "allocatable", "pointer"}

\* a <variable> node with a <dimensions> and an <initial_value> child
ShapedVarNode(local_name, standard_name, alloc, dims) ==
  [attrib |-> IF alloc = None
                THEN [local_name |-> local_name, standard_name |-> standard_name,
                      type |-> "real"]
                ELSE [local_name |-> local_name, standard_name |-> standard_name,
                      type |-> "real", allocatable |-> alloc],
   children |-> << [tag |-> "dimensions", dims |-> dims],
                   [tag |-> "initial_value", text |-> "1"] >>]

\* an <element> child
ElementNode(standard_name, index_name, index_pos, children) ==
  [tag |-> "element",
   attrib |-> [standard_name |-> standard_name, index_name |-> index_name,
               index_pos |-> index_pos],
   children |-> children]

\* a child of a tag Variable.__init__ does not know
OddChild == [tag |-> "dims", text |-> "s1"]

\* nodes with a token of three components and something else wrong: an
\* attribute outside the allow-list, an unknown child before or after the
\* <dimensions> child
OddVarNodes ==
  {[attrib |-> [local_name |-> "v", standard_name |-> "s2", type |-> "real",
                allocatable |-> alloc, kkind |-> "r8"],
    children |-> << [tag |-> "dimensions", dims |-> << <<"s1", "s1", "s1">> >>] >>] :
     alloc \in {"pointer", "target"}}
  \cup
  {[attrib |-> [local_name |-> "v", standard_name |-> "s2", type |-> "real",
                allocatable |-> "pointer"],
    children |-> children] :
     children \in { << OddChild, [tag |-> "dimensions", dims |-> << <<"s1", "s1", "s1">> >>] >>,
                    << [tag |-> "dimensions", dims |-> << <<"s1", "s1", "s1">> >>], OddChild >> }}

\* the nodes of the shape specification: the scalar s1, every shape of s2 and
\* the odd nodes
ShapeVarNodes ==
  {VarNode("u", "s1")} \cup
  {ShapedVarNode("v", "s2", alloc, dims) :
     alloc \in AllocAttribs, dims \in SeqsUpTo(DimTokens, MaxDims)} \cup
  OddVarNodes

Next ==
  \/ \E var_node \in DictVarNodes : AddVariable(var_node)
  \/ \E std_name \in StandardNames : RemoveVariable(std_name)

Spec == Init /\ [][Next]_vars

\* the most children of a <ddt> input node
MaxData == 2

\* a <data> child and a child of another tag
DataNode(text, dycores) ==
  [tag |-> "data", text |-> text,
   attrib |-> IF dycores = <<>> THEN NoAttrib ELSE [dycore |-> dycores]]
OtherNode == [tag |-> "dessert", text |-> "ice_cream", attrib |-> NoAttrib]

\* the children of the <ddt> input nodes: a member kept by the dycore filter,
\* a member named in another case, a member the filter skips, and an unknown
\* tag; s1 and s2 are names no variable has until their variables are added
DDTChildren == {DataNode("s1", <<"SE", "fv">>), DataNode("S2", <<>>),
                DataNode("s2", <<"fv">>), OtherNode}

\* the extends attribute of the input nodes: absent, the name of a DDT,
\* which is registered once a <ddt> node of that type has been read, and an
\* intrinsic type
ExtendsAttribs == {None, "t1", "real"}

\* the bindC attribute of the input nodes
BindCAttribs == {None, "true"}

DDTNode(type, extends, bindc, children) ==
  [attrib |-> [a \in {"type"} \cup (IF extends = None THEN {} ELSE {"extends"})
                                \cup (IF bindc = None THEN {} ELSE {"bindC"}) |->
                 CASE a = "type" -> type [] a = "extends" -> extends [] OTHER -> bindc],
   children |-> children]

\* the <ddt> nodes of the input: t1 with every extends attribute, and t2,
\* which extends t1
DDTNodes ==
  {DDTNode("t1", extends, bindc, children) :
     extends \in ExtendsAttribs, bindc \in BindCAttribs,
     children \in SeqsUpTo(DDTChildren, MaxData)}
  \cup
  {DDTNode("t2", "t1", bindc, children) :
     bindc \in BindCAttribs, children \in SeqsUpTo(DDTChildren, MaxData)}

\* the variables of the DDT specification: a public and a private scalar
DDTVarNodes ==
  {VarNode("u", "s1"),
   [attrib |-> [local_name |-> "v", standard_name |-> "s2", type |-> "real",
                access |-> "private"],
    children |-> <<>>]}

NextDDT ==
  \/ \E var_node \in DDTVarNodes : AddVariable(var_node)
  \/ \E ddt_node \in DDTNodes : NewDDT(ddt_node)
  \/ \E i \in 1..2 : WriteDDTMetadata(i)
  \/ \E i \in 1..2 : WriteDDTDefinition(i)
  \/ \E i \in 1..2 : CallVariableList(i)

SpecDDT == Init /\ [][NextDDT]_vars

NextVar ==
  \/ \E var_node \in ShapeVarNodes : AddVariable(var_node)
  \/ \E std_name \in {"s1", "S1"} : RemoveVariable(std_name)

SpecVar == Init /\ [][NextVar]_vars

---------------------------------------------------------------------------
(* The TypeRegistry on its own *)

\* TypeRegistry.add_type(new_type, FileName), type_ddt left at its default
RegisterType(new_type) ==
  /\ Parsing
  /\ known_types' = AddType(known_types, new_type, FileName, <<>>).types
  /\ last' = [op |-> "add_type", arg |-> <<new_type>>,
              res |-> AddType(known_types, new_type, FileName, <<>>).res,
              pre |-> Pre, val |-> <<>>]
  /\ UNCHANGED <<var_dict, standard_names, dimensions, ddts, outfile>>
  /\ UNCHANGED run_vars

\* TypeRegistry.known_type(test_type)
LookupType(test_type) ==
  /\ Parsing
  /\ last' = [op |-> "known_type", arg |-> <<test_type>>, res |-> Ok,
              pre |-> Pre, val |-> KnownType(known_types, test_type)]
  /\ UNCHANGED <<var_dict, standard_names, dimensions, known_types, ddts, outfile>>
  /\ UNCHANGED run_vars

\* the names of the registry specification: a name in two spellings, a
\* second name, and a spelling of an intrinsic type
TypeNames == {"t1", "T1", "t2", "Real"}

NextReg ==
  \/ \E new_type \in TypeNames : RegisterType(new_type)
  \/ \E test_type \in TypeNames : LookupType(test_type)

SpecReg == Init /\ [][NextReg]_vars

---------------------------------------------------------------------------
(* The run of write_registry_files: reading the registry *)

\* the node File.__init__ reads next: the first node left of the first
\* section left
NextNode == Head(Head(registry).nodes)

\* the registry once that node is read
RegistryAfterNode == [registry EXCEPT ![1].nodes = Tail(@)]

\* File.__init__ is at a node of the section
AtNode ==
  /\ Parsing
  /\ registry # <<>>
  /\ Head(registry).tag = "file"
  /\ Head(registry).nodes # <<>>

\* File.__init__, lines 1015-1019: the next node is a <variable> or an <array>
ReadVariable ==
  /\ AtNode
  /\ NextNode.tag \in {"variable", "array"}
  /\ AddVariableStep(NextNode.node)
  /\ registry' = RegistryAfterNode
  /\ UNCHANGED <<files, use_statements, written, dim_order, min_dim_key>>

\* File.__init__, lines 1020-1028: the next node is a <ddt>
ReadDDT ==
  /\ AtNode
  /\ NextNode.tag = "ddt"
  /\ NewDDTStep(NextNode.node)
  /\ registry' = RegistryAfterNode
  /\ UNCHANGED <<files, use_statements, written, dim_order, min_dim_key>>

\* File.__init__, lines 1029-1038: what a <use> node gives
UseEntry(use_node) ==
  IF ~Truthy(Get(use_node, "module", None))
    THEN [res |-> CCPPError("IllegalUse", <<"no module">>), entry |-> <<>>]
  ELSE IF ~Truthy(Get(use_node, "reference", None))
    THEN [res |-> CCPPError("IllegalUse", <<"no reference">>), entry |-> <<>>]
  ELSE [res |-> Ok,
        entry |-> << <<Get(use_node, "module", None),
                       Get(use_node, "reference", None)>> >>]

\* File.__init__, lines 1029-1038: the next node is a <use>
ReadUse ==
  /\ AtNode
  /\ NextNode.tag = "use"
  /\ use_statements' = use_statements \o UseEntry(NextNode.node).entry
  /\ last' = [op |-> "use", arg |-> <<NextNode.node>>,
              res |-> UseEntry(NextNode.node).res, pre |-> Pre]
  /\ registry' = RegistryAfterNode
  /\ UNCHANGED <<var_dict, standard_names, dimensions, known_types, ddts, outfile,
                 files, written, dim_order, min_dim_key>>

\* File.__init__, lines 1039-1042: the next node has another tag
ReadUnknown ==
  /\ AtNode
  /\ NextNode.tag \notin {"variable", "array", "ddt", "use"}
  /\ last' = [op |-> "file_element", arg |-> <<NextNode.node>>,
              res |-> CCPPError("UnknownFileElement", <<NextNode.tag>>), pre |-> Pre]
  /\ registry' = RegistryAfterNode
  /\ UNCHANGED <<var_dict, standard_names, dimensions, known_types, ddts, outfile,
                 files, use_statements, written, dim_order, min_dim_key>>

\* the File object File.__init__ returns
ThisFile ==
  [name |-> FileName, var_dict |-> var_dict, dimensions |-> dimensions,
   ddts |-> ddts, use_statements |-> use_statements]

\* write_registry_files, line 1440: File.__init__ has read every node of the
\* section; the File joins the list and the next section starts on a new
\* VarDict with the same TypeRegistry
EndFile ==
  /\ Parsing
  /\ registry # <<>>
  /\ Head(registry).tag = "file"
  /\ Head(registry).nodes = <<>>
  /\ files' = Append(files, ThisFile)
  /\ registry' = Tail(registry)
  /\ var_dict' = <<>>
  /\ standard_names' = <<>>
  /\ dimensions' = {}
  /\ ddts' = <<>>
  /\ use_statements' = <<>>
  /\ last' = [op |-> "file", arg |-> <<FileName>>, res |-> Ok, pre |-> Pre]
  /\ UNCHANGED <<known_types, outfile, written, dim_order, min_dim_key>>

\* write_registry_files, lines 1441-1444: a section that is no <file>
RejectSection ==
  /\ Parsing
  /\ registry # <<>>
  /\ Head(registry).tag # "file"
  /\ last' = [op |-> "section", arg |-> <<Head(registry).tag>>,
              res |-> CCPPError("UnknownObject", <<Head(registry).tag>>), pre |-> Pre]
  /\ UNCHANGED <<var_dict, standard_names, dimensions, known_types, ddts, outfile,
                 registry, files, use_statements, written, dim_order, min_dim_key>>

---------------------------------------------------------------------------
(* The run of write_registry_files: the writers of File *)

\* len() of the names the inputs use
StrLen(s) ==
  CASE s \in {"b", "c"} -> 1
    [] s \in {"aa", "s1", "s2", "s3", "sx", "sy", "sn", "S1", "S2"} -> 2
    [] s = "longer_name" -> 11
    [] OTHER -> 0

\* max() of a non-empty set of integers
MaxOf(S) == CHOOSE x \in S : \A y \in S : y <= x

\* VarDict.write_metadata: the lines of the dictionary of a File
DictWriteMetadata(file) ==
  << <<"[ccpp-arg-table]">>, <<"name", file.name>>, <<"type", "module">> >>
  \o VarsWriteMetadata(DictVariableList(file.var_dict))

\* the loop of File.write_metadata over the DDTs, from DDT i on
RECURSIVE DDTsWriteMetadata(_, _)
DDTsWriteMetadata(file_ddts, i) ==
  IF i > Len(file_ddts) THEN <<>>
  ELSE DDTWriteMetadata(file_ddts[i].var).lines \o DDTsWriteMetadata(file_ddts, i + 1)

\* File.write_metadata: the artifact <name>.meta
FileWriteMetadata(file) ==
  [name |-> <<file.name, "meta">>,
   lines |-> DDTsWriteMetadata(file.ddts, 1) \o DictWriteMetadata(file),
   complete |-> TRUE]

\* the variable_list() of every DDT of a File, one after the other, from DDT i
\* on: [res, val]
RECURSIVE DDTsVariableList(_, _, _)
DDTsVariableListStep(file_ddts, i, val, members) ==
  IF members.res # Ok THEN [res |-> members.res, val |-> val]
  ELSE DDTsVariableList(file_ddts, i + 1, val \o members.val)

DDTsVariableList(file_ddts, i, val) ==
  IF i > Len(file_ddts) THEN [res |-> Ok, val |-> val]
  ELSE DDTsVariableListStep(file_ddts, i, val, VariableList(file_ddts[i].var))

\* File.write_source, lines 1076-1091: the (module, type) pairs of a list of
\* variables whose type comes from another module
VarUses(vlist, name) ==
  [i \in 1..Len(SelectSeq(vlist, LAMBDA v : /\ v.type.module # None
                                            /\ Lower(v.type.module) # Lower(name))) |->
     << SelectSeq(vlist, LAMBDA v : /\ v.type.module # None
                                    /\ Lower(v.type.module) # Lower(name))[i].type.module,
        SelectSeq(vlist, LAMBDA v : /\ v.type.module # None
                                    /\ Lower(v.type.module) # Lower(name))[i].type.type_type >>]

\* File.write_source, lines 1076-1095: module_list
ModuleList(file, members) ==
  VarUses(DictVariableList(file.var_dict), file.name)
  \o VarUses(members, file.name)
  \o file.use_statements

\* the loop of File.write_source over the DDTs (lines 1110-1112), from DDT i
\* on: [res, lines]
RECURSIVE DDTsWriteDefinition(_, _, _)
DDTsWriteDefinitionStep(file_ddts, i, lines, w) ==
  IF w.res # Ok THEN [res |-> w.res, lines |-> lines \o w.lines]
  ELSE DDTsWriteDefinition(file_ddts, i + 1, lines \o w.lines)

DDTsWriteDefinition(file_ddts, i, lines) ==
  IF i > Len(file_ddts) THEN [res |-> Ok, lines |-> lines]
  ELSE DDTsWriteDefinitionStep(file_ddts, i, lines,
                               DDTWriteDefinition(file_ddts[i].var, "private"))

\* File.write_ic_names, lines 1205-1212: the elements of the variables of a
\* list, one after the other
RECURSIVE ElementsOf(_)
ElementsOf(vlist) ==
  IF vlist = <<>> THEN <<>>
  ELSE Head(vlist).elements \o ElementsOf(Tail(vlist))

\* File.write_ic_names, lines 1194-1212: variable_list
IcVariableList(file, members) ==
  (members \o DictVariableList(file.var_dict))
  \o ElementsOf(members \o DictVariableList(file.var_dict))

\* the variables of a list that have ic_names
WithIcNames(vlist) == SelectSeq(vlist, LAMBDA v : v.ic_names # <<>>)

\* len() of every ic name of a variable
IcNameLens(var) == {StrLen(var.ic_names[1][k]) : k \in 1..Len(var.ic_names[1])}

\* File.find_ic_name_max_len
FindIcNameMaxLen(vlist) ==
  MaxOf({0} \cup UNION {IcNameLens(WithIcNames(vlist)[i]) :
                          i \in 1..Len(WithIcNames(vlist))})

\* lines 1272-1293: the row of one variable: its names padded to
\* ic_name_max_len and then, when it has fewer than ic_name_max_num names, ONE
\* entry that is the list of the missing blank names, as line 1290 appends
\* the list and line 1293 formats it.  An entry is [text, len], len being the
\* number of characters between its quotes.
IcRow(ic_names, max_num, max_len) ==
  [k \in 1..Len(ic_names) |-> [text |-> ic_names[k], len |-> max_len]]
  \o (IF max_num - Len(ic_names) # 0
        THEN << [text |-> "<list of blank names>",
                 len |-> 2 + (max_num - Len(ic_names)) * (max_len + 2)
                           + (max_num - Len(ic_names) - 1) * 2] >>
        ELSE <<>>)

\* File.write_ic_names, given variable_list and the three maxima: the table
IcTables(vlist, max_num, stdname_max_len, max_len) ==
  [ic_var_num |-> Len(WithIcNames(vlist)),
   std_name_len |-> stdname_max_len,
   ic_name_len |-> max_len,
   ic_name_max_num |-> max_num,
   stdnames |-> [i \in 1..Len(WithIcNames(vlist)) |->
                   [text |-> WithIcNames(vlist)[i].standard_name,
                    len |-> stdname_max_len]],
   ic_names |-> [i \in 1..Len(WithIcNames(vlist)) |->
                   IcRow(WithIcNames(vlist)[i].ic_names[1], max_num, max_len)]]

\* File.write_ic_names: <<the tables>>, or <<>> when no variable has ic_names
\* (lines 1215-1224); stdname_max_len is the maximum over the whole
\* variable_list (line 1228)
WriteIcNames(vlist) ==
  IF WithIcNames(vlist) = <<>> THEN <<>>
  ELSE << IcTables(vlist,
                   MaxOf({Len(WithIcNames(vlist)[i].ic_names[1]) :
                            i \in 1..Len(WithIcNames(vlist))}),
                   MaxOf({StrLen(vlist[i].standard_name) : i \in 1..Len(vlist)}),
                   FindIcNameMaxLen(vlist)) >>

\* a sequence without the elements a test rejects
InSeq(s, x) == \E i \in 1..Len(s) : s[i] = x

\* the class attributes File.__dim_order and File.__min_dim_key
DimKeys(order, min_key) == [dim_order |-> order, min_dim_key |-> min_key]

\* `dim_name in File.__dim_order` and File.__dim_order[dim_name]
HasDimKey(order, dim_name) == \E i \in 1..Len(order) : order[i].name = dim_name
DimKey(order, dim_name) == order[CHOOSE i \in 1..Len(order) : order[i].name = dim_name].key

\* a dim_sort_key that hands out the counter without advancing it
DimSortKeyNoAdvance(keys, dim_name) ==
  IF ~HasDimKey(keys.dim_order, dim_name)
    THEN DimKeys(Append(keys.dim_order, [name |-> dim_name, key |-> keys.min_dim_key]),
                 keys.min_dim_key)
    ELSE keys

\* File.dim_sort_key: the class attributes after the call
DimSortKey(keys, dim_name) ==
  IF ~HasDimKey(keys.dim_order, dim_name)
    THEN DimKeys(Append(keys.dim_order, [name |-> dim_name, key |-> keys.min_dim_key]),
                 keys.min_dim_key + 1)
    ELSE keys

\* File.dim_sort_key called on every element of args in turn, as sort() does
\* (line 1139): the class attributes after the calls
RECURSIVE KeysAfterSort(_, _)
KeysAfterSort(keys, args) ==
  IF args = <<>> THEN keys
  ELSE KeysAfterSort(DimSortKey(keys, Head(args)), Tail(args))

\* the place of args[i] in the sorted list: sort() is stable
SortedPlace(order, args, i) ==
  1 + Cardinality({j \in 1..Len(args) :
                     \/ DimKey(order, args[j]) < DimKey(order, args[i])
                     \/ DimKey(order, args[j]) = DimKey(order, args[i]) /\ j < i})

\* args.sort(key=File.dim_sort_key) (line 1139), order holding a key for
\* every element of args
SortedBy(order, args) ==
  [r \in 1..Len(args) |->
     args[CHOOSE i \in 1..Len(args) : SortedPlace(order, args, i) = r]]

SortedArgs(keys, args) == SortedBy(KeysAfterSort(keys, args).dim_order, args)

\* the orders in which list() can give the elements of a set (line 1138)
ListsOf(S) ==
  {f \in [1..Cardinality(S) -> S] : \A i, j \in 1..Cardinality(S) : f[i] = f[j] => i = j}

\* File.write_allocate_routine, lines 1137-1144: the dummy arguments
AllocateArgs(keys, args) ==
  SortedArgs(keys, args) \o << <<"set_init_val_in">>, <<"reallocate_in">> >>

\* the parts of a name, for the names of the inputs that hold the name of a
\* flag of the allocation routine
Parts(name) ==
  CASE name = "set_init_val_in" -> <<"set_init_val", "_in">>
    [] name = "reallocate_in" -> <<"reallocate", "_in">>
    [] name = "n_reallocate" -> <<"n_", "reallocate">>
    [] OTHER -> <<name>>

\* `sub in arg` for an argument kept as the components of its token
InString(sub, arg) ==
  \E k \in 1..Len(arg) : \E p \in 1..Len(Parts(arg[k])) : Parts(arg[k])[p] = sub

\* File.write_allocate_routine, lines 1150-1159: the declaration of every
\* dummy argument
DummyArguments(args) ==
  [i \in 1..Len(args) |->
     IF InString("set_init_val", args[i]) \/ InString("reallocate", args[i])
       THEN [typ |-> "logical", opt |-> "optional", arg |-> args[i]]
       ELSE [typ |-> "integer", opt |-> "", arg |-> args[i]]]

\* VarBase.write_initial_value, lines 195-213: the value written
InitVal(var) ==
  IF (IF var.allocatable = "pointer" /\ var.initial_value = "NULL()"
        THEN "" ELSE var.initial_value) # ""
    THEN var.initial_value
  ELSE IF Lower(var.type.type_type) = "real" THEN "nan"
  ELSE IF Lower(var.type.type_type) = "integer" THEN "HUGE(1)"
  ELSE IF Lower(var.type.type_type) = "character" THEN "\"\""
  ELSE ""

\* VarBase.write_initial_value of a variable or an element under the name
\* var_name: the lines written
WriteInitialValue(var, var_name) ==
  IF InitVal(var) # ""
    THEN << <<"if", "set_init_val">>, <<"assign", var_name, InitVal(var)>>,
            <<"end if">> >>
    ELSE <<>>

\* Variable.write_allocate_routine, lines 648-657: the initial values of the
\* elements of a variable, from element i on
RECURSIVE ElementsWriteInitialValue(_, _, _)
ElementsWriteInitialValue(elements, i, ddt_str) ==
  IF i > Len(elements) THEN <<>>
  ELSE (IF elements[i].initial_value # ""
          THEN WriteInitialValue(elements[i],
                                 ddt_str \o elements[i].local_index_name_str)
          ELSE <<>>)
       \o ElementsWriteInitialValue(elements, i + 1, ddt_str)

\* an allocation that does not release what is allocated
AllocateLinesWithoutRelease(var, lname) ==
  IF var.allocatable \in {"pointer", "allocatable"}
    THEN << <<"if", IF var.allocatable = "pointer" THEN "associated" ELSE "allocated",
              lname>>,
            <<"if", "reallocate">>,
            <<"else">>, <<"endrun", lname>>, <<"end if">>, <<"end if">>,
            <<"allocate", lname, var.dimensions>> >>
    ELSE <<>>

\* lines 622-647: the allocation of a variable that is no DDT object
AllocateLines(var, lname) ==
  IF var.allocatable \in {"pointer", "allocatable"}
    THEN << <<"if", IF var.allocatable = "pointer" THEN "associated" ELSE "allocated",
              lname>>,
            <<"if", "reallocate">>,
            <<"deallocate", lname>> >>
         \o (IF var.allocatable = "pointer" THEN << <<"nullify", lname>> >> ELSE <<>>)
         \o << <<"else">>, <<"endrun", lname>>, <<"end if">>, <<"end if">>,
               <<"allocate", lname, var.dimensions>> >>
    ELSE <<>>

\* lines 616-657: the lines of a variable that is no DDT object
LeafWriteAllocate(var, ddt_str) ==
  AllocateLines(var, ddt_str \o <<var.local_name>>)
  \o (IF var.allocatable # "parameter"
        THEN WriteInitialValue(var, ddt_str \o <<var.local_name>>)
             \o ElementsWriteInitialValue(var.elements, 1, ddt_str)
        ELSE <<>>)

\* Variable.write_allocate_routine: [res, lines]; an array of a DDT type is
\* not implemented (lines 609-615), and the members of a DDT object are
\* written under its name.  VarsWriteAllocate is the loop over a list of
\* variables, from variable i on (lines 613-615 and 1176-1178).
RECURSIVE VarWriteAllocate(_, _)
RECURSIVE VarsWriteAllocate(_, _, _, _)
VarsWriteAllocateStep(vlist, i, lines, ddt_str, w) ==
  IF w.res # Ok THEN [res |-> w.res, lines |-> lines \o w.lines]
  ELSE VarsWriteAllocate(vlist, i + 1, lines \o w.lines, ddt_str)

VarsWriteAllocate(vlist, i, lines, ddt_str) ==
  IF i > Len(vlist) THEN [res |-> Ok, lines |-> lines]
  ELSE VarsWriteAllocateStep(vlist, i, lines, ddt_str,
                             VarWriteAllocate(vlist[i], ddt_str))

MembersWriteAllocate(members, sub_ddt_str) ==
  IF members.res # Ok THEN [res |-> members.res, lines |-> <<>>]
  ELSE VarsWriteAllocate(members.val, 1, <<>>, sub_ddt_str)

VarWriteAllocate(var, ddt_str) ==
  IF var.type.ddt # <<>>
    THEN IF var.dimensions # <<>>
           THEN [res |-> Raise("ParseInternalError", "ArraysOfDDT", <<var.local_name>>),
                 lines |-> <<>>]
           ELSE MembersWriteAllocate(VariableList(var.type.ddt[1]),
                                     ddt_str \o <<var.local_name>>)
    ELSE [res |-> Ok, lines |-> LeafWriteAllocate(var, ddt_str)]

\* the artifact <name>.F90 as far as File.write_source got
SourceArtifact(file, uses, ddt_lines, ic, var_lines, args, alloc_lines, complete) ==
  [name |-> <<file.name, "F90">>, uses |-> uses, ddt_lines |-> ddt_lines,
   ic |-> ic, var_lines |-> var_lines, args |-> args,
   dummy_arguments |-> DummyArguments(args), alloc_lines |-> alloc_lines,
   complete |-> complete]

\* File.write_source from line 1128 on: the allocate routine
SourceAfterVars(file, keys, args, members, defs, vdefs, allocs) ==
  [res |-> allocs.res,
   keys |-> KeysAfterSort(keys, args),
   art |-> SourceArtifact(file, ModuleList(file, members), defs.lines,
                          WriteIcNames(IcVariableList(file, members)),
                          vdefs.lines, AllocateArgs(keys, args), allocs.lines,
                          allocs.res = Ok)]

\* File.write_source from line 1113 on: the name tables, the variables
SourceAfterDDTs(file, keys, args, members, defs, vdefs) ==
  IF vdefs.res # Ok
    THEN [res |-> vdefs.res, keys |-> keys,
          art |-> SourceArtifact(file, ModuleList(file, members), defs.lines,
                                 WriteIcNames(IcVariableList(file, members)),
                                 vdefs.lines, <<>>, <<>>, FALSE)]
    ELSE SourceAfterVars(file, keys, args, members, defs, vdefs,
                         VarsWriteAllocate(DictVariableList(file.var_dict), 1, <<>>, <<>>))

\* File.write_source from line 1096 on: the use statements, the DDTs
SourceAfterUses(file, keys, args, members, defs) ==
  IF defs.res # Ok
    THEN [res |-> defs.res, keys |-> keys,
          art |-> SourceArtifact(file, ModuleList(file, members), defs.lines,
                                 <<>>, <<>>, <<>>, <<>>, FALSE)]
    ELSE SourceAfterDDTs(file, keys, args, members, defs,
                         VarsWriteDefinition(DictVariableList(file.var_dict), 1, <<>>))

\* File.write_source from line 1076 on, members being what the
\* variable_list() of the DDTs gave
SourceAfterOpen(file, keys, args, members) ==
  IF members.res # Ok
    THEN [res |-> members.res, keys |-> keys,
          art |-> SourceArtifact(file, <<>>, <<>>, <<>>, <<>>, <<>>, <<>>, FALSE)]
    ELSE SourceAfterUses(file, keys, args, members.val,
                         DDTsWriteDefinition(file.ddts, 1, <<>>))

\* File.write_source: [res, art, keys]; args is list(known_dimensions)
FileWriteSource(file, keys, args) ==
  SourceAfterOpen(file, keys, args, DDTsVariableList(file.ddts, 1, <<>>))

\* the File the writers of lines 1452-1454 are at: each File gets its
\* metadata and then its source
EmitIndex == (Len(written) \div 2) + 1

\* write_registry_files, line 1453: file_.write_metadata
WriteMetadataFile ==
  /\ Running
  /\ registry = <<>>
  /\ Len(written) % 2 = 0
  /\ EmitIndex <= Len(files)
  /\ written' = Append(written, FileWriteMetadata(files[EmitIndex]))
  /\ outfile' = FileWriteMetadata(files[EmitIndex]).lines
  /\ last' = [op |-> "file_write_metadata", arg |-> <<files[EmitIndex].name>>,
              res |-> Ok, pre |-> Pre]
  /\ UNCHANGED <<var_dict, standard_names, dimensions, known_types, ddts,
                 registry, files, use_statements, dim_order, min_dim_key>>

\* write_registry_files, line 1454, w being what File.write_source gave
WriteSourceStep(w) ==
  /\ written' = Append(written, w.art)
  /\ dim_order' = w.keys.dim_order
  /\ min_dim_key' = w.keys.min_dim_key
  /\ outfile' = w.art.ddt_lines \o w.art.var_lines
  /\ last' = [op |-> "file_write_source", arg |-> <<files[EmitIndex].name>>,
              res |-> w.res, pre |-> Pre]
  /\ UNCHANGED <<var_dict, standard_names, dimensions, known_types, ddts,
                 registry, files, use_statements>>

\* write_registry_files, line 1454: file_.write_source
WriteSourceFile ==
  /\ Running
  /\ registry = <<>>
  /\ Len(written) % 2 = 1
  /\ EmitIndex <= Len(files)
  /\ \E args \in ListsOf(files[EmitIndex].dimensions) :
       WriteSourceStep(FileWriteSource(files[EmitIndex], DimKeys(dim_order, min_dim_key), args))

---------------------------------------------------------------------------
(* The run of write_registry_files: the registries read *)

\* a <variable> or <array> node of a registry
RegVar(local_name, standard_name, type, attrs, children) ==
  [tag |-> "variable",
   node |-> [attrib |-> [a \in {"local_name", "standard_name", "type"}
                               \cup DOMAIN attrs |->
                           CASE a = "local_name" -> local_name
                             [] a = "standard_name" -> standard_name
                             [] a = "type" -> type
                             [] OTHER -> attrs[a]],
             children |-> children]]

\* a <ddt> node of a registry whose members are given by standard name
RegDDT(type, members) ==
  [tag |-> "ddt",
   node |-> DDTNode(type, None, None,
                    [i \in 1..Len(members) |-> DataNode(members[i], <<>>)])]

\* a <ddt> node of a registry that extends another DDT
RegDDTExtends(type, extends, members) ==
  [tag |-> "ddt",
   node |-> DDTNode(type, extends, None,
                    [i \in 1..Len(members) |-> DataNode(members[i], <<>>)])]

\* a <use> node of a registry
RegUse(module, reference) ==
  [tag |-> "use", node |-> [attrib |-> [module |-> module, reference |-> reference],
                            children |-> <<>>]]

\* a <file> section of a registry
FileSection(name, nodes) == [tag |-> "file", name |-> name, nodes |-> nodes]

\* f1 defines the DDT t1 with one member
SectionF1 ==
  FileSection("f1", << RegVar("u", "s1", "real", NoAttrib, <<>>),
                       RegDDT("t1", <<"s1">>) >>)

\* f2 has two variables of the type t1 and names t1 in a <use> as well
SectionF2 ==
  FileSection("f2", << RegVar("v", "s2", "t1", NoAttrib, <<>>),
                       RegVar("w", "s3", "t1", NoAttrib, <<>>),
                       RegUse("f1", "t1") >>)

\* f3 declares the member of its DDT after the DDT
SectionF3 ==
  FileSection("f3", << RegDDT("t3", <<"sx">>),
                       RegVar("x", "sx", "real", NoAttrib, <<>>) >>)

\* f4 defines a DDT whose name has an upper-case letter
SectionF4 ==
  FileSection("f4", << RegVar("y", "sy", "real", NoAttrib, <<>>),
                       RegDDT("T1", <<"sy">>) >>)

\* f5 has a variable of the type T1
SectionF5 ==
  FileSection("f5", << RegVar("z", "sn", "T1", NoAttrib, <<>>) >>)

\* f6 defines a DDT without members
SectionF6 == FileSection("f6", << RegDDT("t6", <<>>) >>)

\* a section whose tag write_registry_files does not know
SectionX == [tag |-> "filex", name |-> "f7", nodes |-> <<>>]

\* f8 has a child whose tag File.__init__ does not know
SectionF8 ==
  FileSection("f8", << [tag |-> "user", node |-> [attrib |-> NoAttrib, children |-> <<>>]] >>)

\* f9 has an array with an <element> that has an attribute and a child
\* VarBase.__init__ does not know
SectionF9 ==
  FileSection("f9",
    << RegVar("i", "sx", "integer", NoAttrib, <<>>),
       RegVar("a", "sy", "real", NoAttrib,
              << [tag |-> "dimensions", dims |-> << <<"sx">> >>],
                 [tag |-> "element",
                  attrib |-> [standard_name |-> "sn", index_name |-> "sx",
                              index_pos |-> "sx", bogus |-> "1"],
                  children |-> << [tag |-> "dessert", text |-> "x"] >>] >>) >>)

\* f10 has two variables with <ic_file_input_names>, one with two names and
\* one with one, and a variable without that has the longest standard_name
SectionF10 ==
  FileSection("f10",
    << RegVar("p", "s1", "real", NoAttrib,
              << [tag |-> "ic_file_input_names", names |-> <<"aa", "b">>] >>),
       RegVar("q", "s2", "real", NoAttrib,
              << [tag |-> "ic_file_input_names", names |-> <<"c">>] >>),
       RegVar("r", "longer_name", "real", NoAttrib, <<>>) >>)

\* f11 has a pointer array over a recognized dimension, a dimension of its
\* own, a range of two names and the constant zero
SectionF11 ==
  FileSection("f11",
    << RegVar("g", "s1", "real", [allocatable |-> "pointer"],
              << [tag |-> "dimensions",
                  dims |-> << <<"horizontal_dimension">>, <<"zz">>, <<"a", "b">>,
                              <<"ccpp_constant_zero">> >>] >>) >>)

\* f12 has an array of the DDT of f1
SectionF12 ==
  FileSection("f12",
    << RegVar("h", "s2", "t1", [allocatable |-> "pointer"],
              << [tag |-> "dimensions", dims |-> << <<"zz">> >>] >>) >>)

\* f13 has a <use> without a module, f14 a <use> without a reference
SectionF13 ==
  FileSection("f13", << [tag |-> "use", node |-> [attrib |-> [reference |-> "t1"],
                                                  children |-> <<>>]] >>)
SectionF14 ==
  FileSection("f14", << [tag |-> "use", node |-> [attrib |-> [module |-> "f1"],
                                                  children |-> <<>>]] >>)

\* f15 has variables of every allocation mode: a pointer array with an
\* element, an allocatable array, a logical, a parameter and a target array
\* with an element that has an initial value and one that has none
SectionF15 ==
  FileSection("f15",
    << RegVar("n", "sn", "integer", NoAttrib, <<>>),
       RegVar("a", "sa", "real", [allocatable |-> "pointer"],
              << [tag |-> "dimensions", dims |-> << <<"sn">> >>],
                 ElementNode("s1", "sn", "sn", <<>>) >>),
       RegVar("b", "sb", "real", [allocatable |-> "allocatable"],
              << [tag |-> "dimensions", dims |-> << <<"sn">> >>] >>),
       RegVar("c", "sc", "logical", NoAttrib, <<>>),
       RegVar("p", "sp", "real", [allocatable |-> "parameter"],
              << [tag |-> "initial_value", text |-> "1"] >>),
       RegVar("e", "sy", "real", [allocatable |-> "target"],
              << [tag |-> "dimensions", dims |-> << <<"sn">> >>],
                 ElementNode("s2", "sn", "sn",
                             << [tag |-> "initial_value", text |-> "0"] >>),
                 ElementNode("s3", "sn", "sn", <<>>) >>) >>)

\* f16 has an object of a DDT of its own whose member is a pointer array over
\* a dimension whose name holds the name of a flag
SectionF16 ==
  FileSection("f16",
    << RegVar("k", "sx", "real", [allocatable |-> "pointer"],
              << [tag |-> "dimensions", dims |-> << <<"n_reallocate">> >>] >>),
       RegDDT("t7", <<"sx">>),
       RegVar("s", "s2", "t7", NoAttrib, <<>>) >>)

\* f17 has a DDT whose member has <ic_file_input_names>, and a DDT that
\* extends it
SectionF17 ==
  FileSection("f17",
    << RegVar("p", "s1", "real", NoAttrib,
              << [tag |-> "ic_file_input_names", names |-> <<"aa">>] >>),
       RegVar("q", "s2", "real", NoAttrib, <<>>),
       RegDDT("t8", <<"s1">>),
       RegDDTExtends("t9", "t8", <<"s2">>),
       RegVar("u", "s3", "t9", NoAttrib, <<>>) >>)

Sections == {SectionF1, SectionF2, SectionF3, SectionF4, SectionF5, SectionF6,
             SectionX, SectionF8, SectionF9, SectionF10, SectionF11, SectionF12,
             SectionF13, SectionF14, SectionF15, SectionF16, SectionF17}

\* the most sections of a registry
MaxFiles == 2

\* the registries of the run specification
Registries == UNION {[1..n -> Sections] : n \in 1..MaxFiles}

\* write_registry_files before the first section is read
InitRun ==
  /\ var_dict = <<>>
  /\ standard_names = <<>>
  /\ dimensions = {}
  /\ known_types = TypeRegistryInit
  /\ ddts = <<>>
  /\ outfile = <<>>
  /\ last = [op |-> "init", arg |-> <<>>, res |-> Ok, pre |-> <<>>]
  /\ registry \in Registries
  /\ files = <<>>
  /\ use_statements = <<>>
  /\ written = <<>>
  /\ dim_order = DimOrderDict
  /\ min_dim_key = MinDimKey

NextRun ==
  \/ ReadVariable
  \/ ReadDDT
  \/ ReadUse
  \/ ReadUnknown
  \/ EndFile
  \/ RejectSection
  \/ WriteMetadataFile
  \/ WriteSourceFile

SpecRun == InitRun /\ [][NextRun]_vars

---------------------------------------------------------------------------
(* Arrays with elements on their own *)

\* the <dimensions> of the input arrays: the index position once, twice and
\* not at all
ArrayShapes == { << <<"sn">> >>, << <<"sn">>, <<"sm">> >>,
                 << <<"sn">>, <<"sm">>, <<"sn">> >>, << <<"sm">> >> }

\* the index variables and the arrays of the input, every array with one
\* element at the position named sn
ArrayVarNodes ==
  { [attrib |-> [local_name |-> l, standard_name |-> s, type |-> "integer"],
     children |-> <<>>] : <<l, s>> \in { <<"n", "sn">>, <<"m", "sm">> } }
  \cup
  { [attrib |-> [local_name |-> "a", standard_name |-> "sa", type |-> "real",
                 allocatable |-> alloc],
     children |-> << [tag |-> "dimensions", dims |-> dims],
                     ElementNode("s1", index_name, "sn", <<>>) >>] :
      alloc \in {"pointer", "target"}, dims \in ArrayShapes,
      index_name \in {"sm", "SM", "s2"} }

NextArr ==
  \/ \E var_node \in ArrayVarNodes : AddVariable(var_node)
  \/ \E std_name \in {"sn", "sa"} : RemoveVariable(std_name)

SpecArr == Init /\ [][NextArr]_vars

---------------------------------------------------------------------------
(* Claims about the VarDict, checked under Spec *)

\* the node, the local_name and the standard_name of the last add
LastNode == last.arg[1]
LastLocalName == Get(LastNode, "local_name", None)
LastStandardName == Get(LastNode, "standard_name", None)
IsAdd == last.op = "add_variable"

\* s is reserved in the dictionary d although no variable of d carries it:
\* remove has detached its variable
Detached(d, s) ==
  /\ StandardNameReserved(d.standard_names, s)
  /\ FindVariableByStandardName(d.var_dict, s) = <<>>

IsPrefix(s, t) == Len(s) <= Len(t) /\ \A i \in 1..Len(s) : s[i] = t[i]

\* C1: in every reachable state of the dictionary no two contained variables
\* have local_names that are equal ignoring case, and no two have
\* standard_names that are equal ignoring case.
C1_UniqueNames ==
  \A i, j \in 1..Len(var_dict) :
    i # j => /\ Lower(var_dict[i].var.local_name) # Lower(var_dict[j].var.local_name)
             /\ Lower(var_dict[i].var.standard_name) # Lower(var_dict[j].var.standard_name)

\* C1 witness: an add succeeded on a dictionary that already held a variable
\* and had lost another to remove
C1_Witness ==
  /\ IsAdd /\ last.res = Ok
  /\ Len(var_dict) >= 2
  /\ Len(standard_names) > Len(var_dict)

\* C2 as stated: once remove has detached the variable of standard_name s,
\* every later add of a variable whose standard_name equals s ignoring case
\* fails with DuplicateStandardName.
C2_ReaddFailsWithDuplicateStandardName ==
  (IsAdd /\ Detached(last.pre, LastStandardName))
    => last.res.kind = "DuplicateStandardName"

\* C2 amended: once remove has detached the variable of standard_name s, every
\* later add of a variable whose standard_name equals s ignoring case fails;
\* it fails with DuplicateStandardName unless the new local_name collides
\* with a variable still held, which is reported first.  The reserved
\* standard names only grow: every call keeps them as a prefix.
C2_ReaddFails ==
  /\ (IsAdd /\ Detached(last.pre, LastStandardName))
       => /\ last.res # Ok
          /\ var_dict = last.pre.var_dict
          /\ (~LocalNameInDict(last.pre.var_dict, LastLocalName)
                => last.res.kind = "DuplicateStandardName")
  /\ last.op \in {"add_variable", "remove_variable"}
       => IsPrefix(last.pre.standard_names, standard_names)

\* C2 witness: an add of a detached standard_name was refused as a duplicate
C2_Witness ==
  /\ IsAdd /\ Detached(last.pre, LastStandardName)
  /\ last.res.kind = "DuplicateStandardName"

\* C3: an add whose local_name equals, ignoring case, the local_name of a
\* variable of the dictionary fails with the DuplicateLocalName error, whose
\* message holds the present variable's standard_name when it differs from
\* the new one.
C3_DuplicateLocalName ==
  (IsAdd /\ FindVariableByLocalName(last.pre.var_dict, LastLocalName) # <<>>)
    => LET ovar == FindVariableByLocalName(last.pre.var_dict, LastLocalName)[1] IN
       /\ last.res.exc = "CCPPError"
       /\ last.res.kind = "DuplicateLocalName"
       /\ (ovar.standard_name # LastStandardName
             => \E i \in 1..Len(last.res.info) : last.res.info[i] = ovar.standard_name)

---------------------------------------------------------------------------
(* Claims about Variable construction, checked under SpecVar *)

\* the dimension list of the last node, and its allocatable attribute
LastDims ==
  LET c == LastNode.children
      hits == {i \in 1..Len(c) : c[i].tag = "dimensions"}
  IN IF hits = {} THEN <<>> ELSE c[CHOOSE i \in hits : TRUE].dims
LastAlloc == Get(LastNode, "allocatable", None)

\* a component that is neither a recognized constant dimension nor the
\* standard_name of a variable of the dictionary d
Unresolvable(d, ddim) ==
  /\ Lower(ddim) \notin {"ccpp_constant_one", "ccpp_constant_zero"}
  /\ \A i \in 1..Len(d.var_dict) :
       Lower(d.var_dict[i].var.standard_name) # Lower(ddim)

\* C4: a variable of allocation mode none (absent or 'none'), parameter or
\* target, one of whose dimension components is neither a recognized constant
\* nor the standard_name of a variable of the dictionary, fails construction
\* with UnresolvedDimension (the tokens being of at most two components, the
\* case of three being C5's).
C4_StaticShapeResolves ==
  ( /\ IsAdd
    /\ LastAlloc \in {None, "none", "parameter", "target"}
    /\ \A i \in 1..Len(LastDims) : Len(LastDims[i]) <= 2
    /\ \E i \in 1..Len(LastDims) : \E k \in 1..Len(LastDims[i]) :
         Unresolvable(last.pre, LastDims[i][k]) )
    => last.res.kind = "UnresolvedDimension"

\* the first token of three or more components
FirstStep == CHOOSE i \in 1..Len(LastDims) :
               /\ Len(LastDims[i]) >= 3
               /\ \A j \in 1..(i - 1) : Len(LastDims[j]) < 3

\* the last node has a child of an unknown tag before its <dimensions> child
UnknownChildFirst ==
  LET c == LastNode.children
      d == CHOOSE i \in 1..Len(c) : c[i].tag = "dimensions"
  IN \E j \in 1..(d - 1) : c[j].tag \notin VarChildTags

\* C5 as stated: a variable one of whose tokens has two ':' separators fails
\* construction with IllegalDimensionStep, whatever its allocation mode and
\* whether or not the components resolve.
C5_StepAlwaysIllegalDimensionStep ==
  (IsAdd /\ \E i \in 1..Len(LastDims) : Len(LastDims[i]) = 3)
    => last.res.kind = "IllegalDimensionStep"

\* C5 amended: such a variable always fails construction and is not added,
\* whatever its allocation mode and whether or not the components of the
\* token resolve; the error is IllegalDimensionStep unless an earlier check
\* fails first: an attribute outside the allow-list, a child of an unknown
\* tag before the <dimensions> child, or, for a 'parameter' or 'target'
\* variable, a token before it that does not resolve.
C5_StepFails ==
  (IsAdd /\ \E i \in 1..Len(LastDims) : Len(LastDims[i]) >= 3)
    => /\ last.res # Ok
       /\ var_dict = last.pre.var_dict
       /\ ( /\ DOMAIN LastNode.attrib \subseteq VarAttributes
            /\ ~UnknownChildFirst
            /\ \/ LastAlloc \notin {"parameter", "target"}
               \/ \A j \in 1..(FirstStep - 1) :
                    ResolveDimension(LastDims[j], last.pre.var_dict, LastLocalName).res = Ok )
          => last.res.kind = "IllegalDimensionStep"

\* C5 witness: a 'target' variable whose first token is s1:s1:s1, every
\* component the standard_name of a variable of the dictionary, was refused
C5_Witness ==
  /\ IsAdd /\ LastAlloc = "target"
  /\ Len(LastDims) >= 1 /\ LastDims[1] = <<"s1", "s1", "s1">>
  /\ FindVariableByStandardName(last.pre.var_dict, "s1") # <<>>
  /\ last.res.kind = "IllegalDimensionStep"

---------------------------------------------------------------------------
(* Claims about the DDT, checked under SpecDDT *)

IsNewDDT == last.op = "new_ddt"

\* the <data> children of the last <ddt> node that the dycore filter keeps
IncludedChildren ==
  SelectSeq(LastNode.children,
            LAMBDA c : c.tag = "data" /\ IncludeVar(c, Dycore))

\* the variables the included children name, as the dictionary held them
\* before the construction
IncludedMembers ==
  [k \in 1..Len(IncludedChildren) |->
     FindVariableByStandardName(last.pre.var_dict, IncludedChildren[k].text)[1]]

\* the members of the constructed DDT are the included members in document
\* order and the dictionary yields none of them any more
MembersMoved ==
  (IsNewDDT /\ last.ddt # <<>>)
    => /\ last.ddt[1].data = IncludedMembers
       /\ \A k \in 1..Len(IncludedMembers) :
            /\ FindVariableByStandardName(var_dict, IncludedMembers[k].standard_name) = <<>>
            /\ FindVariableByLocalName(var_dict, IncludedMembers[k].local_name) = <<>>
            /\ \A i \in 1..Len(DictVariableList(var_dict)) :
                 DictVariableList(var_dict)[i] # IncludedMembers[k]

\* child i of the last <ddt> node stops the loop over the children: it is no
\* <data> child, or it is included and names a variable the dictionary does
\* not hold when the loop reaches it
StopsLoop(i) ==
  LET c == LastNode.children IN
  \/ c[i].tag # "data"
  \/ /\ IncludeVar(c[i], Dycore)
     /\ \/ FindVariableByStandardName(last.pre.var_dict, c[i].text) = <<>>
        \/ \E j \in 1..(i - 1) : /\ c[j].tag = "data"
                                 /\ IncludeVar(c[j], Dycore)
                                 /\ Lower(c[j].text) = Lower(c[i].text)

\* the extends and bindC attributes of the last <ddt> node
LastExtends == Get(LastNode, "extends", None)
LastBindC == Get(LastNode, "bindC", PyFalse)

\* C6 as stated: construction moves every included member out of the
\* dictionary, the member list being the included members in document order,
\* and a <data> child naming a standard_name the dictionary does not hold
\* fails with UnknownMember.
C6_MembersMovedOrUnknownMember ==
  /\ MembersMoved
  /\ ( /\ IsNewDDT
       /\ \E i \in 1..Len(LastNode.children) :
            /\ LastNode.children[i].tag = "data"
            /\ FindVariableByStandardName(last.pre.var_dict,
                                          LastNode.children[i].text) = <<>> )
       => last.res.kind = "UnknownMember"

\* C6 amended: construction moves every included member out of the
\* dictionary, the member list being the included members in document order;
\* a <data> child that the dycore filter keeps and that names a standard_name
\* the dictionary does not hold when the loop reaches it fails the
\* construction, with UnknownMember unless the check of extends or of bindC
\* or an earlier child fails first.  A child the filter skips is not looked up.
C6_IncludedMembersMoved ==
  /\ MembersMoved
  /\ ( /\ IsNewDDT
       /\ \E i \in 1..Len(LastNode.children) :
            LastNode.children[i].tag = "data" /\ StopsLoop(i) )
       => /\ last.res # Ok
          /\ last.ddt = <<>>
          /\ ( /\ LastExtends # None => KnownType(last.pre.known_types, LastExtends) # <<>>
               /\ ~(LastExtends # None /\ Truthy(LastBindC))
               /\ LastNode.children[CHOOSE i \in 1..Len(LastNode.children) :
                                      /\ StopsLoop(i)
                                      /\ \A j \in 1..(i - 1) : ~StopsLoop(j)].tag = "data" )
             => last.res.kind = "UnknownMember"
  /\ ( /\ IsNewDDT
       /\ \A i \in 1..Len(LastNode.children) : ~StopsLoop(i)
       /\ LastExtends = None )
       => last.ddt # <<>>

\* C6 witness: a DDT was constructed from two included members, one of them
\* named in another case, and a child the filter skips
C6_Witness ==
  /\ IsNewDDT /\ last.res = Ok
  /\ Len(last.ddt[1].data) = 2
  /\ Len(last.pre.var_dict) = 2 /\ var_dict = <<>>

\* the list the claim gives a DDT: the own members, then the list of the parent
RECURSIVE OwnThenParent(_)
OwnThenParent(ddt) ==
  IF ddt.extends = <<>> \/ ddt.extends[1].ddt = <<>> THEN ddt.data
  ELSE ddt.data \o OwnThenParent(ddt.extends[1].ddt[1])

\* C7: variable_list() of every DDT returns its own members in declaration
\* order followed by the variable_list() of its parent, and the own members
\* alone when there is no parent.
C7_VariableListOwnThenParent ==
  last.op = "ddt_variable_list"
    => /\ last.res = Ok
       /\ last.val = OwnThenParent(last.arg[1])

\* C8: a construction with an extends attribute that names a type which is
\* not registered, or is registered without a DDT, fails with
\* UnknownParentType, so the parent of every constructed DDT carries a DDT.
C8_ParentIsDerivedType ==
  /\ ( /\ IsNewDDT /\ LastExtends # None
       /\ \/ KnownType(last.pre.known_types, LastExtends) = <<>>
          \/ KnownType(last.pre.known_types, LastExtends)[1].ddt = <<>> )
       => last.res.kind = "UnknownParentType"
  /\ \A i \in 1..Len(ddts) :
       ddts[i].var.extends # <<>> => ddts[i].var.extends[1].ddt # <<>>

\* no DDT of the File has both a parent and a bindC flag
NoParentWithBindC ==
  \A i \in 1..Len(ddts) : ~(ddts[i].var.extends # <<>> /\ Truthy(ddts[i].var.bindc))

\* C9 as stated: no constructed DDT has both a parent and the bindC flag; a
\* construction with extends together with bindC fails with
\* ConflictingAttributes.
C9_ExtendsWithBindCConflicts ==
  /\ NoParentWithBindC
  /\ (IsNewDDT /\ LastExtends # None /\ Truthy(LastBindC))
       => last.res.kind = "ConflictingAttributes"

\* C9 amended: no constructed DDT has both a parent and the bindC flag; a
\* construction with extends together with bindC fails, with
\* ConflictingAttributes when extends names a registered type and with
\* UnknownParentType when it does not.
C9_ExtendsWithBindCFails ==
  /\ NoParentWithBindC
  /\ (IsNewDDT /\ LastExtends # None /\ Truthy(LastBindC))
       => /\ last.ddt = <<>>
          /\ ddts = last.pre.ddts
          /\ last.res.kind =
               IF KnownType(last.pre.known_types, LastExtends) # <<>>
                 THEN "ConflictingAttributes" ELSE "UnknownParentType"

\* C9 witness: a <ddt> node that extends the registered DDT t1 and sets bindC
\* was refused
C9_Witness ==
  /\ IsNewDDT /\ LastExtends = "t1" /\ Truthy(LastBindC)
  /\ KnownType(last.pre.known_types, "t1") # <<>>
  /\ last.res.kind = "ConflictingAttributes"

\* C10: every emission of a DDT without own members fails with
\* NoMemberVariables, and nothing is written of such a DDT.
C10_EmptyDDTNeverEmitted ==
  ( /\ last.op \in {"ddt_write_metadata", "ddt_write_definition"}
    /\ last.arg[1].data = <<>> )
    => /\ last.res.kind = "NoMemberVariables"
       /\ outfile = <<>>

---------------------------------------------------------------------------
(* Claims about the TypeRegistry, checked under SpecReg *)

\* the keys of the registry d that equal name ignoring case
KeysIgnoringCase(d, name) ==
  {i \in 1..Len(d) : Lower(d[i].key) = Lower(name)}

\* C11: after any sequence of successful add_type calls, known_type of a
\* spelling that equals a registered name ignoring case returns the entry
\* registered under that name, known_type(n) directly after add_type(n)
\* returns the new entry, and known_type of a name matching no entry returns
\* None.
C11_LookupIgnoresCase ==
  last.op = "known_type"
    => /\ KeysIgnoringCase(known_types, last.arg[1]) # {}
            => /\ last.val # <<>>
               /\ \E i \in KeysIgnoringCase(known_types, last.arg[1]) :
                    last.val[1] = known_types[i].entry
       /\ KeysIgnoringCase(known_types, last.arg[1]) = {} => last.val = <<>>
       /\ ( /\ last.pre.known_types # <<>>
            /\ last.pre.known_types[Len(last.pre.known_types)].key = last.arg[1] )
            => last.val = <<last.pre.known_types[Len(last.pre.known_types)].entry>>

---------------------------------------------------------------------------
(* Claims about the run of write_registry_files, checked under SpecRun *)

\* the DDT types the Files read before this one defined
TypesOfEarlierFiles ==
  UNION {{files[i].ddts[j].var.type : j \in 1..Len(files[i].ddts)} :
           i \in 1..Len(files)}

\* the DDT types the <ddt> nodes still to be read define
TypesOfLaterNodes ==
  UNION {{registry[i].nodes[j].node.attrib.type :
            j \in {k \in 1..Len(registry[i].nodes) : registry[i].nodes[k].tag = "ddt"}} :
           i \in 1..Len(registry)}

\* the DDT types of this File so far
TypesOfThisFile == {ddts[j].var.type : j \in 1..Len(ddts)}

\* C12: the sections are read in document order against one TypeRegistry: a
\* variable whose type is a DDT that a File read earlier defined is not
\* refused as of unknown type, and a variable whose type is a DDT that only a
\* node still to be read defines is refused as of unknown type.
C12_EarlierTypesResolveLaterDoNot ==
  last.op = "add_variable" =>
    /\ Get(last.arg[1], "type", None) \in TypesOfEarlierFiles
         => last.res.kind # "UnknownType"
    /\ Get(last.arg[1], "type", None) \in
         TypesOfLaterNodes \ (TypesOfEarlierFiles \cup TypesOfThisFile)
         => last.res.kind = "UnknownType"


\* the standard names of the <variable> and <array> nodes of this section that
\* are still to be read
DeclaredLater ==
  IF registry = <<>> THEN {}
  ELSE {Head(registry).nodes[j].node.attrib.standard_name :
          j \in {k \in 1..Len(Head(registry).nodes) :
                   Head(registry).nodes[k].tag \in {"variable", "array"}}}

\* C13: the variables of a section are in the dictionary before any DDT of
\* the section is constructed, so a <ddt> node whose <data> child names a
\* variable declared after it in the section is not refused for that member.
C13_LaterVariableIsFound ==
  (IsNewDDT /\ \E k \in 1..Len(IncludedChildren) :
                  IncludedChildren[k].text \in DeclaredLater)
    => last.res.kind # "UnknownMember"


\* every File read has its metadata and its source artifact, each complete
AllWritten ==
  /\ registry = <<>>
  /\ Len(written) = 2 * Len(files)
  /\ \A k \in 1..Len(written) : written[k].complete

\* C14: a run ends with every artifact written and no error, or with an
\* error and no artifact written: in no state is an error raised and an
\* artifact on disk, and a run that can go on no further without an error
\* has written everything.
C14_ErrorLeavesNoArtifact ==
  /\ last.res # Ok => written = <<>>
  /\ (Running /\ registry = <<>> /\ EmitIndex > Len(files)) => AllWritten


\* the File whose source the last call wrote
LastFile == files[Len(written) \div 2]

\* the source artifact the last call wrote
LastSource == written[Len(written)]

\* the variables of the last File that have <ic_file_input_names>
Aliased ==
  WithIcNames(IcVariableList(LastFile, DDTsVariableList(LastFile.ddts, 1, <<>>).val))

\* C15: with N variables that have ic names, S the longest standard_name
\* among them, W the most ic names of one variable and L the longest ic name,
\* the table of standard names has N entries of S characters and the table
\* of ic names has N rows of W entries of L characters each.
C15_NameTablesAreRectangular ==
  (last.op = "file_write_source" /\ LastSource.ic # <<>>) =>
    /\ Len(LastSource.ic[1].stdnames) = Len(Aliased)
    /\ \A i \in 1..Len(LastSource.ic[1].stdnames) :
         LastSource.ic[1].stdnames[i].len =
           MaxOf({StrLen(Aliased[j].standard_name) : j \in 1..Len(Aliased)})
    /\ Len(LastSource.ic[1].ic_names) = Len(Aliased)
    /\ \A i \in 1..Len(LastSource.ic[1].ic_names) :
         /\ Len(LastSource.ic[1].ic_names[i]) =
              MaxOf({Len(Aliased[j].ic_names[1]) : j \in 1..Len(Aliased)})
         /\ \A k \in 1..Len(LastSource.ic[1].ic_names[i]) :
              LastSource.ic[1].ic_names[i][k].len = FindIcNameMaxLen(Aliased)


\* C17: the list of (module, type) pairs a source artifact imports holds no
\* pair twice.
C17_UsesAreDistinct ==
  last.op = "file_write_source" =>
    \A i, j \in 1..Len(LastSource.uses) :
       LastSource.uses[i] = LastSource.uses[j] => i = j


\* the child tags VarBase.__init__ reads of an <element> node
ElementChildTags == {"long_name", "initial_value", "ic_file_input_names"}

\* an <element> child of the node has a child of a tag outside the allow-list
HasOddElement(var_node) ==
  \E i \in 1..Len(var_node.children) :
     /\ var_node.children[i].tag = "element"
     /\ \E k \in 1..Len(var_node.children[i].children) :
          var_node.children[i].children[k].tag \notin ElementChildTags

\* C18: a tag outside the allow-list aborts the construction wherever it
\* stands: as a section of the registry, as a child of a <file> node and as
\* a child of an <element> of a variable.
C18_UnknownTagsAbort ==
  /\ last.op \in {"section", "file_element"} => last.res # Ok
  /\ (last.op = "add_variable" /\ HasOddElement(last.arg[1])) => last.res # Ok


\* the parameters of the allocation routine ahead of the two flags
DimArgs == SubSeq(LastSource.args, 1, Len(LastSource.args) - 2)

\* the non-constant components of the dimensions the dictionary of the last
\* File knows
KnownNames ==
  UNION {{tok[k] : k \in {c \in 1..Len(tok) : ConstantDimension(tok[c]) = <<>>}} :
           tok \in LastFile.dimensions}

\* where the variables of the last File have the token, a variable counting
\* for ten tokens
Seen(tok) ==
  UNION {{10 * i + j : j \in {t \in 1..Len(LastFile.var_dict[i].var.dimensions) :
                                LowerToken(LastFile.var_dict[i].var.dimensions[t]) = tok}} :
           i \in 1..Len(LastFile.var_dict)}

\* the rank of a recognized dimension, 0 for any other
Rank(tok) ==
  IF InSeq(DimOrder, tok) THEN CHOOSE r \in 1..Len(DimOrder) : DimOrder[r] = tok ELSE 0

\* C16: the parameters of the allocation routine are the non-constant
\* dimension names the dictionary knows, each once, the recognized ones
\* first and in rank order, the others in the order their variables first
\* have them, and then the initialize flag and the reallocate flag.
C16_AllocateParameters ==
  (last.op = "file_write_source" /\ LastSource.args # <<>>) =>
    /\ SubSeq(LastSource.args, Len(LastSource.args) - 1, Len(LastSource.args))
         = << <<"set_init_val_in">>, <<"reallocate_in">> >>
    /\ \A i \in 1..Len(DimArgs) : Len(DimArgs[i]) = 1
    /\ {DimArgs[i][1] : i \in 1..Len(DimArgs)} = KnownNames
    /\ \A i, j \in 1..Len(DimArgs) : DimArgs[i] = DimArgs[j] => i = j
    /\ \A i, j \in 1..Len(DimArgs) :
         (i < j /\ Rank(DimArgs[j]) # 0)
           => (Rank(DimArgs[i]) # 0 /\ Rank(DimArgs[i]) < Rank(DimArgs[j]))
    /\ \A i, j \in 1..Len(DimArgs) :
         (i < j /\ Rank(DimArgs[i]) = 0 /\ Seen(DimArgs[i]) # {} /\ Seen(DimArgs[j]) # {})
           => \E s \in Seen(DimArgs[i]) : \A t \in Seen(DimArgs[j]) : s <= t

---------------------------------------------------------------------------
(* Claims about dimensions, checked under SpecVar *)

\* the variable the last call added
AddedVar == AtKey(var_dict, Lower(Get(last.arg[1], "local_name", None))).var

\* the non-constant components of the tokens of a dimension list, lower-cased
NonConstantNames(var_dimensions) ==
  UNION {{<<Lower(var_dimensions[i][k])>> :
            k \in {c \in 1..Len(var_dimensions[i]) :
                     ConstantDimension(var_dimensions[i][c]) = <<>>}} :
           i \in 1..Len(var_dimensions)}

\* C19: a successful add_variable adds to the known dimensions every
\* non-constant component of every token of the variable and nothing else.
C19_KnownDimensionsAreNames ==
  (last.op = "add_variable" /\ last.res = Ok) =>
    dimensions = last.pre.dimensions \cup NonConstantNames(AddedVar.dimensions)


\* the tokens of the <dimensions> children of a node
TokensOf(var_node) ==
  UNION {{var_node.children[i].dims[j] : j \in 1..Len(var_node.children[i].dims)} :
           i \in {c \in 1..Len(var_node.children) :
                    var_node.children[c].tag = "dimensions"}}

\* a token of at most two components, each a constant or the standard_name
\* of a variable of the dictionary, and one of them a constant
ConstantToken(tok, dict) ==
  /\ Len(tok) <= 2
  /\ \A k \in 1..Len(tok) : \/ ConstantDimension(tok[k]) # <<>>
                            \/ FindVariableByStandardName(dict, tok[k]) # <<>>
  /\ \E k \in 1..Len(tok) : ConstantDimension(tok[k]) # <<>>

\* C20: a variable of allocation mode none, parameter or target whose tokens
\* are constants, alone or beside a resolvable name, is not refused for its
\* dimensions.
C20_ConstantDimensionsResolve ==
  (/\ last.op = "add_variable"
   /\ Get(last.arg[1], "allocatable", "none") \in {"none", "parameter", "target"}
   /\ TokensOf(last.arg[1]) # {}
   /\ \A tok \in TokensOf(last.arg[1]) : ConstantToken(tok, last.pre.var_dict))
    => last.res.kind \notin {"JoinOfInteger", "UnresolvedDimension"}


\* one deferred-shape placeholder for every token of the variable
Placeholders(var) == [i \in 1..Len(var.dimensions) |-> <<":">>]

\* the allocation modes whose shape is set when the variable is allocated
DeferredModes == {"allocatable", "pointer"}

\* C21: a variable of allocation mode allocatable or pointer, and of no other
\* mode, has one placeholder ':' per dimension token as its declared shape,
\* and its construction never fails for a dimension that is not found.
C21_DeferredShapeOnlyWhenAllocated ==
  /\ (last.op = "add_variable" /\ last.res = Ok /\ AddedVar.dimensions # <<>>) =>
       (Get(last.arg[1], "allocatable", "none") \in DeferredModes
          <=> AddedVar.def_dims = Placeholders(AddedVar))
  /\ (last.op = "add_variable"
      /\ Get(last.arg[1], "allocatable", "none") \in DeferredModes) =>
       last.res.kind # "UnresolvedDimension"

---------------------------------------------------------------------------
(* Claims about array elements, checked under SpecArr *)

\* the last node is an array with an <element> child, which is its last child
IsArrayNode ==
  /\ last.op = "add_variable"
  /\ last.arg[1].children # <<>>
  /\ last.arg[1].children[Len(last.arg[1].children)].tag = "element"

\* the <element> child of the last node
LastElementNode == last.arg[1].children[Len(last.arg[1].children)]

\* the tokens of the last node
LastShape == last.arg[1].children[1].dims

\* the positions of the last node whose token is the index_pos of its element
IndexPositions ==
  {i \in 1..Len(LastShape) : LastShape[i] = <<LastElementNode.attrib.index_pos>>}

\* the element the last call constructed
AddedElement == AddedVar.elements[1]

\* C22: the element of an array has an index expression with one position
\* per token of the array: the index_name at the single position whose token
\* is index_pos and ':' at every other; its expression for the generated
\* code has the local_name of the index variable at that position; its local
\* name is the array with the index expression; and an array none of whose
\* tokens is index_pos is refused.
C22_ElementIndexExpression ==
  /\ (IsArrayNode /\ last.res = Ok) =>
       \E p \in 1..Len(LastShape) :
          /\ LastShape[p] = <<LastElementNode.attrib.index_pos>>
          /\ AddedElement.local_name =
               <<AddedVar.local_name, "(">>
               \o [i \in 1..Len(LastShape) |->
                     IF i = p THEN LastElementNode.attrib.index_name ELSE ":"]
               \o <<")">>
          /\ AddedElement.local_index_name_str =
               <<AddedVar.local_name, "(">>
               \o [i \in 1..Len(LastShape) |->
                     IF i = p
                       THEN FindVariableByStandardName(
                              last.pre.var_dict,
                              LastElementNode.attrib.index_name)[1].local_name
                       ELSE ":"]
               \o <<")">>
  /\ (IsArrayNode /\ IndexPositions = {}) => last.res # Ok

---------------------------------------------------------------------------
(* Claims about the allocation routine, checked under SpecRun *)

\* the generated allocation routine run on a store: st holds the names that
\* are allocated, the conditions of the open if blocks, the two flags and
\* the outcome, which is "abort" after endrun and "fault" after an allocate
\* of an allocated name or a deallocate of a name that is not allocated
Active(st) == \A k \in 1..Len(st.conds) : st.conds[k]

RECURSIVE Exec(_, _, _)
Exec(lines, i, st) ==
  IF i > Len(lines) \/ st.out # "ok" THEN st
  ELSE Exec(lines, i + 1,
    CASE lines[i][1] = "if" ->
           [st EXCEPT !.conds = Append(@,
              IF lines[i][2] = "reallocate" THEN st.reallocate
              ELSE IF lines[i][2] = "set_init_val" THEN st.set_init_val
              ELSE lines[i][3] \in st.allocated)]
      [] lines[i][1] = "else" ->
           [st EXCEPT !.conds[Len(st.conds)] = ~@]
      [] lines[i][1] = "end if" ->
           [st EXCEPT !.conds = SubSeq(@, 1, Len(@) - 1)]
      [] lines[i][1] = "endrun" /\ Active(st) -> [st EXCEPT !.out = "abort"]
      [] lines[i][1] = "deallocate" /\ Active(st) ->
           IF lines[i][2] \in st.allocated
             THEN [st EXCEPT !.allocated = @ \ {lines[i][2]}]
             ELSE [st EXCEPT !.out = "fault"]
      [] lines[i][1] = "allocate" /\ Active(st) ->
           IF lines[i][2] \in st.allocated
             THEN [st EXCEPT !.out = "fault"]
             ELSE [st EXCEPT !.allocated = @ \cup {lines[i][2]}]
      [] lines[i][1] = "assign" /\ Active(st) ->
           [st EXCEPT !.assigned = @ \cup {lines[i][2]}]
      [] OTHER -> st)

\* the routine of the last source run from the given allocated names
Routine(allocated, set_init_val, reallocate) ==
  Exec(LastSource.alloc_lines, 1,
       [allocated |-> allocated, assigned |-> {}, conds |-> <<>>,
        set_init_val |-> set_init_val, reallocate |-> reallocate, out |-> "ok"])

\* the variables of a list that are no DDT objects, and the members of those
\* that are, each with the name it has in the routine
RECURSIVE Leaves(_, _)
Leaves(vlist, ddt_str) ==
  IF vlist = <<>> THEN {}
  ELSE (IF Head(vlist).type.ddt # <<>>
          THEN Leaves(VariableList(Head(vlist).type.ddt[1]).val,
                      ddt_str \o <<Head(vlist).local_name>>)
          ELSE {[lname |-> ddt_str \o <<Head(vlist).local_name>>, var |-> Head(vlist)]})
       \cup Leaves(Tail(vlist), ddt_str)

\* the leaf variables of the last File
LastLeaves == Leaves(DictVariableList(LastFile.var_dict), <<>>)

\* the names of the leaf variables of the last File that are allocated
Allocatables ==
  {l.lname : l \in {x \in LastLeaves : x.var.allocatable \in {"pointer", "allocatable"}}}

\* the last call wrote a whole source
SourceWritten == last.op = "file_write_source" /\ last.res = Ok

\* C23: the routine allocates exactly the leaf variables of mode pointer or
\* allocatable; run where they are allocated it releases each before it
\* allocates it when reallocate is true and aborts when reallocate is false;
\* it never allocates an allocated variable.
C23_AllocateAfterRelease ==
  SourceWritten =>
    /\ \A init \in BOOLEAN, reall \in BOOLEAN :
         /\ Routine({}, init, reall).out = "ok"
         /\ Routine({}, init, reall).allocated = Allocatables
    /\ \A init \in BOOLEAN :
         /\ Routine(Allocatables, init, TRUE).out = "ok"
         /\ Routine(Allocatables, init, TRUE).allocated = Allocatables
         /\ Allocatables # {} => Routine(Allocatables, init, FALSE).out = "abort"
         /\ \A some \in SUBSET Allocatables :
              Routine(some, init, TRUE).out = "ok"
    /\ {LastSource.alloc_lines[i][2] :
          i \in {k \in 1..Len(LastSource.alloc_lines) :
                   LastSource.alloc_lines[k][1] \in {"allocate", "deallocate"}}}
         = Allocatables

\* C23: witness: a source was written for a File with a pointer and an
\* allocatable variable
C23_Witness ==
  /\ SourceWritten
  /\ \E x, y \in LastLeaves :
       x.var.allocatable = "pointer" /\ y.var.allocatable = "allocatable"


\* an element that declares an initial value; a pointer's NULL() is the
\* default of lines 160-163
DeclaresInitialValue(elem) ==
  elem.initial_value # ""
  /\ ~(elem.allocatable = "pointer" /\ elem.initial_value = "NULL()")

\* the names the claim has initialized: every leaf that is no parameter and
\* its elements that declare an initial value
Initialized ==
  UNION {{l.lname} \cup
         {SubSeq(l.lname, 1, Len(l.lname) - 1) \o l.var.elements[i].local_index_name_str :
            i \in {k \in 1..Len(l.var.elements) :
                     DeclaresInitialValue(l.var.elements[k])}} :
           l \in {x \in LastLeaves : x.var.allocatable # "parameter"}}

\* C24: run with the initialize flag, the routine initializes every leaf
\* variable that is no parameter and those of its elements that declare an
\* initial value, and nothing else; run without the flag it initializes
\* nothing.
C24_InitializationOfLeaves ==
  SourceWritten =>
    /\ Routine({}, TRUE, FALSE).assigned = Initialized
    /\ Routine({}, FALSE, FALSE).assigned = {}


---------------------------------------------------------------------------
(* Claims about emission as a whole, checked under SpecRun *)

\* C25: writing the metadata or the source of a File changes no state of the
\* compiler: the type registry, the dictionaries of every File, the DDTs, the
\* use statements, and the dimension keys that File.dim_sort_key keeps for the
\* emissions that follow are after the step what they were before it.
C25_EmissionIsReadOnly ==
  [][last'.op \in {"file_write_metadata", "file_write_source"}
       => UNCHANGED <<var_dict, standard_names, dimensions, known_types, ddts,
                      registry, files, use_statements, dim_order, min_dim_key>>]_vars


\* the variables a File holds that have <ic_file_input_names>: those of its
\* dictionary, the members of its DDTs, and the elements of both
RECURSIVE OwnMembers(_, _)
OwnMembers(file_ddts, i) ==
  IF i > Len(file_ddts) THEN <<>>
  ELSE file_ddts[i].var.data \o OwnMembers(file_ddts, i + 1)

Declared(file) ==
  WithIcNames((OwnMembers(file.ddts, 1) \o DictVariableList(file.var_dict))
              \o ElementsOf(OwnMembers(file.ddts, 1)
                            \o DictVariableList(file.var_dict)))

\* C26: the name tables of a source file have one row for every variable of
\* the File that has <ic_file_input_names>, and N is the number of these
\* variables; a member a DDT inherits from a DDT of the same File counts once.
C26_OneRowPerAliasedVariable ==
  (SourceWritten /\ LastSource.ic # <<>>) =>
    /\ LastSource.ic[1].ic_var_num = Len(Declared(LastFile))
    /\ Len(LastSource.ic[1].stdnames) = Len(Declared(LastFile))
    /\ Len(LastSource.ic[1].ic_names) = Len(Declared(LastFile))


---------------------------------------------------------------------------
(* Claims about the owner of a variable, checked under SpecDDT *)

\* the places that hold the variable of standard_name s: the dictionary, and
\* the positions of the member lists of the DDTs of the File
Holders(s) ==
  {<<0, i>> : i \in {i \in 1..Len(var_dict) :
                       Lower(var_dict[i].var.standard_name) = s}}
  \cup UNION {{<<i, k>> : k \in {k \in 1..Len(ddts[i].var.data) :
                                   Lower(ddts[i].var.data[k].standard_name) = s}} :
                i \in 1..Len(ddts)}

\* every variable constructed so far has exactly one holder
OneOwner ==
  Running => \A n \in 1..Len(standard_names) :
               Cardinality(Holders(standard_names[n])) = 1

\* child i of the last <ddt> node is kept by the filter and names a variable
\* that a DDT has taken before the loop reaches the child
SecondReference(i) ==
  LET c == LastNode.children IN
  /\ c[i].tag = "data" /\ IncludeVar(c[i], Dycore)
  /\ StandardNameReserved(last.pre.standard_names, c[i].text)
  /\ \/ FindVariableByStandardName(last.pre.var_dict, c[i].text) = <<>>
     \/ \E j \in 1..(i - 1) : /\ c[j].tag = "data" /\ IncludeVar(c[j], Dycore)
                              /\ Lower(c[j].text) = Lower(c[i].text)

\* the variables that only children the filter skips name are in the
\* dictionary after the construction
SkippedStay ==
  (IsNewDDT /\ last.res = Ok) =>
    \A i \in 1..Len(LastNode.children) :
      ( /\ LastNode.children[i].tag = "data"
        /\ ~IncludeVar(LastNode.children[i], Dycore)
        /\ FindVariableByStandardName(last.pre.var_dict,
                                      LastNode.children[i].text) # <<>>
        /\ \A k \in 1..Len(IncludedChildren) :
             Lower(IncludedChildren[k].text) # Lower(LastNode.children[i].text) )
      => FindVariableByStandardName(var_dict, LastNode.children[i].text)
           = FindVariableByStandardName(last.pre.var_dict,
                                        LastNode.children[i].text)

C27_WitnessSecondReference ==
  /\ IsNewDDT /\ last.res.kind = "UnknownMember"
  /\ Len(ddts) = 1 /\ Len(ddts[1].var.data) >= 1
  /\ \E i \in 1..Len(LastNode.children) : SecondReference(i)


---------------------------------------------------------------------------
(* Claims about the definition of a DDT, checked under SpecDDT *)

\* the lines of the last definition written that declare a member
MemberDeclarations == SelectSeq(outfile, LAMBDA l : l[1] = "::")

\* C28: the definition of a DDT with at least one member of its own is
\* written whatever the access and the allocation mode of its members, all
\* members private included: the type line, one declaration for each own
\* member, and the end type line.
C28_DefinitionOfEveryDDT ==
  (last.op = "ddt_write_definition" /\ last.arg[1].data # <<>>) =>
    /\ last.res = Ok
    /\ outfile[2][1] = "type"
    /\ outfile[Len(outfile)] = <<"end type", last.arg[1].type>>
    /\ Len(MemberDeclarations) = Len(last.arg[1].data)


---------------------------------------------------------------------------
(* Claims about the parameters of the allocation routine, checked under
   SpecRun *)

\* the declarations of the parameters of the last routine written
LastDummies == LastSource.dummy_arguments

\* C29: every dimension parameter of the allocation routine is declared a
\* required integer input whatever its name, and the two flags, which come
\* last, are the only parameters declared optional logical inputs.
C29_DimensionsAreRequiredIntegers ==
  SourceWritten =>
    /\ Len(LastDummies) = Cardinality(LastFile.dimensions) + 2
    /\ \A i \in 1..Len(LastDummies) :
         IF i <= Cardinality(LastFile.dimensions)
           THEN /\ LastDummies[i].arg \in LastFile.dimensions
                /\ LastDummies[i].typ = "integer" /\ LastDummies[i].opt = ""
           ELSE /\ LastDummies[i].arg \in {<<"set_init_val_in">>, <<"reallocate_in">>}
                /\ LastDummies[i].typ = "logical" /\ LastDummies[i].opt = "optional"


---------------------------------------------------------------------------
(* Claims about the sort keys of the dimensions, checked under SpecRun *)

\* the keys File.__dim_order holds: every name has one key and every key one
\* name, the four recognized names have the keys 1 to 4, every other name
\* has a key of at least 5, the later a name came the greater its key, and
\* File.__min_dim_key is greater than every key
KeysInOrder ==
  /\ Len(dim_order) >= Len(DimOrder)
  /\ \A i, j \in 1..Len(dim_order) :
       (dim_order[i].name = dim_order[j].name \/ dim_order[i].key = dim_order[j].key)
         => i = j
  /\ \A i \in 1..Len(DimOrder) : dim_order[i] = [name |-> DimOrder[i], key |-> i]
  /\ \A i \in (Len(DimOrder) + 1)..Len(dim_order) :
       /\ dim_order[i].key >= 5
       /\ \A j \in (i + 1)..Len(dim_order) : dim_order[i].key < dim_order[j].key
  /\ \A i \in 1..Len(dim_order) : dim_order[i].key < min_dim_key

\* a step keeps the key of every name that has one
KeysKept ==
  \A i \in 1..Len(dim_order) :
    /\ HasDimKey(dim_order', dim_order[i].name)
    /\ DimKey(dim_order', dim_order[i].name) = dim_order[i].key

\* C30: over the dim_sort_key calls of all the Files of a run the key of a
\* name never changes once it is assigned, distinct names have distinct
\* keys, the four recognized names keep the keys 1 to 4, every other name has
\* a key of at least 5 and the keys grow in the order of the first calls, and
\* the counter of the next key is greater than every key assigned.
C30_DimensionKeysAreStable == []KeysInOrder /\ [][KeysKept]_vars

\* C30 witness: the source of a second File is written, and the dictionary
\* holds a name the first File brought and, after it, a name only the second
\* File has
C30_Witness ==
  /\ SourceWritten /\ Len(written) = 4
  /\ \E i, j \in (Len(DimOrder) + 1)..Len(dim_order) :
       /\ i < j
       /\ dim_order[i].name \in files[1].dimensions
       /\ dim_order[j].name \in files[2].dimensions \ files[1].dimensions

====
